---------------------------- MODULE Spec2Model ----------------------------
(***************************************************************************)
(* Octopus-Charging-Scanner: the opportunity scorer and window selector of *)
(* analyzer.py, the forecast evolution tracker of forecast_evolution.py,   *)
(* the forecast accuracy tracker of forecast_tracker.py, the saving of the *)
(* persisted collections, the notifier of pushover.py, the retrying fetch  *)
(* of octopus_api.py, the data store of data_store.py, the threshold tuner *)
(* of threshold_tuner.py and the day comparison of multi_day_planner.py.   *)
(* Each component has its own specification; the variables of the other    *)
(* components stay at their idle values.                                   *)
(*                                                                         *)
(* Units.  Times are counted in half-hour slots, dates in days.  Prices    *)
(* are whole pence/kWh and carbon intensities whole gCO2/kWh; a mean is    *)
(* kept as the pair (sum, count) and compared exactly (sum <= bound*count).*)
(* Weights and scores are scaled by 1000 (0.6 is 600, a score of 75.0 is   *)
(* 75000).  The charge duration is counted in quarter hours.  Savings     *)
(* percentages are kept in hundredths of a percentage point, which is what *)
(* round(x, 2) leaves.                                                     *)
(***************************************************************************)
EXTENDS Integers, Sequences, FiniteSets, TLC

VARIABLES
    \* ---- Analyzer.find_optimal_window: arguments, position, outcome
    price_weight, carbon_weight,
    price_slots, carbon_slots, charge_duration_q,
    pc, result,
    \* ---- ForecastEvolutionTracker: clock, persisted file, last call
    today, target_forecasts, last_cleanup, last,
    \* ---- ForecastEvolutionTracker._calculate_confidence: one call
    conf_call,
    \* ---- ForecastTracker: persisted file, dates recorded so far, last call
    comparisons, recorded_dates, tracker_last,
    \* ---- Analyzer(...) and calculate_opportunity_score: the arguments
    scorer_call,
    \* ---- one save of a persisted collection: the writer and the files
    writer, files,
    \* ---- PushoverClient: the date, the rate-limit file, the notifications
    \* the service accepted on each date, the last call
    clock_day, rate_data, delivered, notify_last,
    \* ---- BaseAPIClient.fetch: the retry count, the loop counter, the
    \* position, the outcome of each request made, each sleep taken
    max_retries, attempt, fetch_pc, responses, sleeps,
    \* ---- DataStore: the three collections and the last save
    forecast_history, daily_recommendations, user_actions, store_last,
    \* ---- ThresholdTuner: the date, the recommendations it reads, the tuning
    \* history it keeps, the last call
    tuner_today, recommendations_file, tuning_file, tuner_last,
    \* ---- ChargingWindow.get_status: a window, the time, the last answer
    window, status_now, status_last,
    \* ---- MultiDayPlanner._compare_days: the argument, the position, the
    \* list returned
    multi_day_data, compare_pc, day_comparisons

analyzerVars == <<price_weight, carbon_weight, price_slots, carbon_slots,
                  charge_duration_q, pc, result>>
evolutionVars == <<today, target_forecasts, last_cleanup, last>>
confidenceVars == <<conf_call>>
trackerVars == <<comparisons, recorded_dates, tracker_last>>
scorerVars == <<scorer_call>>
persistVars == <<writer, files>>
notifyVars == <<clock_day, rate_data, delivered, notify_last>>
fetchVars == <<max_retries, attempt, fetch_pc, responses, sleeps>>
tunerVars == <<tuner_today, recommendations_file, tuning_file, tuner_last>>
statusVars == <<window, status_now, status_last>>
plannerVars == <<multi_day_data, compare_pc, day_comparisons>>
storeVars ==
    <<forecast_history, daily_recommendations, user_actions, store_last>>
vars == <<price_weight, carbon_weight, price_slots, carbon_slots,
          charge_duration_q, pc, result, today, target_forecasts, last_cleanup,
          last, conf_call, comparisons, recorded_dates, tracker_last,
          scorer_call, writer, files, clock_day, rate_data, delivered,
          notify_last, max_retries, attempt, fetch_pc, responses, sleeps,
          forecast_history, daily_recommendations, user_actions, store_last,
          tuner_today, recommendations_file, tuning_file, tuner_last,
          window, status_now, status_last, multi_day_data, compare_pc,
          day_comparisons>>

\* the notifier, the API client, the data store, the threshold tuner, the
\* status of a window and the multi-day planner
laterVars ==
    <<notifyVars, fetchVars, storeVars, tunerVars, statusVars, plannerVars>>

\* what the calls of one component leave alone
outsideAnalyzer ==
    <<evolutionVars, confidenceVars, trackerVars, persistVars, laterVars>>
outsideEvolution ==
    <<analyzerVars, scorerVars, confidenceVars, trackerVars, persistVars,
      laterVars>>
outsideConfidence ==
    <<analyzerVars, scorerVars, evolutionVars, trackerVars, persistVars,
      laterVars>>
outsideTracker ==
    <<analyzerVars, scorerVars, evolutionVars, confidenceVars, persistVars,
      laterVars>>
outsidePersist ==
    <<analyzerVars, scorerVars, evolutionVars, confidenceVars, trackerVars,
      laterVars>>
earlierVars ==
    <<analyzerVars, scorerVars, evolutionVars, confidenceVars, trackerVars,
      persistVars>>

\* the variables of the notifier and the rest, but for the component named
LaterUnchangedBut(component) ==
    /\ IF component = "notify" THEN TRUE ELSE UNCHANGED notifyVars
    /\ IF component = "fetch" THEN TRUE ELSE UNCHANGED fetchVars
    /\ IF component = "store" THEN TRUE ELSE UNCHANGED storeVars
    /\ IF component = "tuner" THEN TRUE ELSE UNCHANGED tunerVars
    /\ IF component = "status" THEN TRUE ELSE UNCHANGED statusVars
    /\ IF component = "planner" THEN TRUE ELSE UNCHANGED plannerVars

----------------------------------------------------------------------------
(* Bounds of the model *)

MaxTime == 2         \* latest slot time (half hours)
MaxDurQ == 5         \* longest charge duration, in quarter hours
MaxDay == 2          \* latest day of the near clock range
MaxNotifyDay == 1    \* latest date of the notifier's clock
MaxDelivered == 7    \* notifications the service accepts on one date
MaxRetries == 4      \* largest max_retries of an API client
MaxStored == 1       \* records saved to the data store
MaxTunerDay == 2     \* latest date of the tuner's clock
MaxClock == 5        \* latest time of the clock a window is compared with
MaxPlanDays == 3     \* days in a multi-day plan
MaxTuningRecords == 3 \* records in the tuning history

----------------------------------------------------------------------------
(* Generic helpers *)

Abs(x) == IF x < 0 THEN -x ELSE x

Max(a, b) == IF a >= b THEN a ELSE b

\* int(): truncation toward zero of num/den, den > 0
TruncDiv(num, den) == IF num >= 0 THEN num \div den ELSE -((-num) \div den)

\* round(): Python 3 rounds num/den (den > 0) to the nearest integer, ties to even
RoundDiv(num, den) ==
    LET fl == num \div den
        twice == 2 * (num - fl * den)
    IN  IF twice < den THEN fl
        ELSE IF twice > den THEN fl + 1
        ELSE IF fl % 2 = 0 THEN fl ELSE fl + 1

----------------------------------------------------------------------------
(* analyzer.py: the opportunity scorer *)

DEFAULT_PRICE_WEIGHT == 600
DEFAULT_CARBON_WEIGHT == 400
DEFAULT_PRICE_EXCELLENT == 10
DEFAULT_PRICE_GOOD == 15
DEFAULT_PRICE_AVERAGE == 20
DEFAULT_CARBON_EXCELLENT == 100
DEFAULT_CARBON_GOOD == 150
DEFAULT_CARBON_AVERAGE == 200

WeightsAccepted_wide(pw, cw) == ~(Abs(pw + cw - 1000) > 20)

\* Analyzer.__init__ raises ValueError if abs(pw + cw - 1.0) > 0.01
WeightsAccepted(pw, cw) == ~(Abs(pw + cw - 1000) > 10)

\* calculate_price_score of the mean sum/n
calculate_price_score(sum, n) ==
    IF sum <= DEFAULT_PRICE_EXCELLENT * n THEN 100
    ELSE IF sum <= DEFAULT_PRICE_GOOD * n THEN 75
    ELSE IF sum <= DEFAULT_PRICE_AVERAGE * n THEN 50
    ELSE 25

\* calculate_carbon_score of the mean sum/n
calculate_carbon_score(sum, n) ==
    IF sum <= DEFAULT_CARBON_EXCELLENT * n THEN 100
    ELSE IF sum <= DEFAULT_CARBON_GOOD * n THEN 75
    ELSE IF sum <= DEFAULT_CARBON_AVERAGE * n THEN 50
    ELSE 25

\* calculate_opportunity_score, scaled by 1000
calculate_opportunity_score(pw, cw, psum, csum, n) ==
    pw * calculate_price_score(psum, n) + cw * calculate_carbon_score(csum, n)

\* classify_opportunity of a score scaled by 1000
classify_opportunity(score) ==
    IF score >= 90000 THEN "EXCELLENT"
    ELSE IF score >= 70000 THEN "GOOD"
    ELSE IF score >= 50000 THEN "AVERAGE"
    ELSE "POOR"

----------------------------------------------------------------------------
(* analyzer.py: the window selector *)

NoCarbon == -1

\* carbon_lookup = {slot.time: slot.intensity ...}: the last entry of a time wins
RECURSIVE carbon_lookup(_, _)
carbon_lookup(cs, t) ==
    IF cs = <<>> THEN NoCarbon
    ELSE IF cs[Len(cs)].time = t THEN cs[Len(cs)].intensity
    ELSE carbon_lookup(SubSeq(cs, 1, Len(cs) - 1), t)

\* one step of the stable sort by time: x goes after every entry that is not later
RECURSIVE InsertByTime(_, _)
InsertByTime(sorted, x) ==
    IF sorted = <<>> THEN <<x>>
    ELSE IF sorted[Len(sorted)].time <= x.time THEN Append(sorted, x)
    ELSE Append(InsertByTime(SubSeq(sorted, 1, Len(sorted) - 1), x),
                sorted[Len(sorted)])

RECURSIVE SortByTime(_)
SortByTime(s) ==
    IF s = <<>> THEN <<>>
    ELSE InsertByTime(SortByTime(SubSeq(s, 1, Len(s) - 1)), s[Len(s)])

\* the inner join of _align_data, before its sort
RECURSIVE JoinSlots(_, _)
JoinSlots(ps, cs) ==
    IF ps = <<>> THEN <<>>
    ELSE LET head == ps[1]
             c == carbon_lookup(cs, head.time)
             rest == JoinSlots(Tail(ps), cs)
         IN  IF c # NoCarbon
             THEN <<[time |-> head.time, price |-> head.price, carbon |-> c]>> \o rest
             ELSE rest

_align_data(ps, cs) == SortByTime(JoinSlots(ps, cs))

\* slots_needed = int(charge_duration_hours * 2), the duration being q/4 hours
SlotsNeeded(q) == TruncDiv(q * 2, 4)

RECURSIVE SumPrice(_)
SumPrice(w) == IF w = <<>> THEN 0 ELSE w[1].price + SumPrice(Tail(w))

RECURSIVE SumCarbon(_)
SumCarbon(w) == IF w = <<>> THEN 0 ELSE w[1].carbon + SumCarbon(Tail(w))

\* aligned_data[i : i + n] for the 1-based start index i
WindowSlots(al, i, n) == SubSeq(al, i, i + n - 1)

\* the score of the window starting at index i
WindowScore(pw, cw, al, i, n) ==
    LET w == WindowSlots(al, i, n)
    IN  calculate_opportunity_score(pw, cw, SumPrice(w), SumCarbon(w), Len(w))

IsBetter_ge(score, best_score) == score >= best_score

\* the comparison of the search loop: if score > best_score
IsBetter(score, best_score) == score > best_score

\* the loop "for i in range(len(aligned_data) - slots_needed + 1)", from index i
\* on, with the best score and the best start index so far (0: best_window is None)
RECURSIVE SearchFrom(_, _, _, _, _, _, _)
SearchFrom(pw, cw, al, n, i, best_score, best_index) ==
    IF i > Len(al) - n + 1 THEN [score |-> best_score, index |-> best_index]
    ELSE LET score == WindowScore(pw, cw, al, i, n)
         IN  IF IsBetter(score, best_score)
             THEN SearchFrom(pw, cw, al, n, i + 1, score, i)
             ELSE SearchFrom(pw, cw, al, n, i + 1, best_score, best_index)

\* the charger power of find_optimal_window, 7.4 kW, in tenths
CHARGER_POWER == 74

\* kwh_charged = charge_duration_hours * 7.4, as a fraction; q quarter hours
KwhCharged(q) == [num |-> q * CHARGER_POWER, den |-> 40]

\* total_cost = (avg_price * kwh_charged) / 100 in pounds, as a fraction
TotalCost(price_sum, num_slots, q) ==
    [num |-> price_sum * KwhCharged(q).num,
     den |-> num_slots * KwhCharged(q).den * 100]

\* avg_carbon = int(sum(carbon) / len(best_window))
AvgCarbon(carbon_sum, num_slots) == TruncDiv(carbon_sum, num_slots)

TotalCarbon_round(avg_carbon, q) ==
    RoundDiv(avg_carbon * KwhCharged(q).num, KwhCharged(q).den)

\* total_carbon = int(avg_carbon * kwh_charged)
TotalCarbon(avg_carbon, q) ==
    TruncDiv(avg_carbon * KwhCharged(q).num, KwhCharged(q).den)

\* the ChargingWindow built from the best window
MakeWindow(al, n, found, q) ==
    LET w == WindowSlots(al, found.index, n)
    IN  [kind |-> "window",
         start |-> w[1].time,
         end |-> w[Len(w)].time + 1,
         price_sum |-> SumPrice(w),
         num_slots |-> Len(w),
         avg_carbon |-> AvgCarbon(SumCarbon(w), Len(w)),
         kwh_charged |-> KwhCharged(q),
         total_cost |-> TotalCost(SumPrice(w), Len(w), q),
         total_carbon |-> TotalCarbon(AvgCarbon(SumCarbon(w), Len(w)), q),
         opportunity_score |-> found.score,
         rating |-> classify_opportunity(found.score)]

Failure(kind, message) == [kind |-> kind, message |-> message]

\* Analyzer.find_optimal_window
find_optimal_window(pw, cw, ps, cs, q) ==
    IF ps = <<>> \/ cs = <<>>
    THEN Failure("ValueError", "Price and carbon data required")
    ELSE LET al == _align_data(ps, cs)
             n == SlotsNeeded(q)
         IN  IF al = <<>>
             THEN Failure("ValueError", "No overlapping price and carbon data found")
             ELSE IF n = 0
             \* range(len + 1) is not empty and the first window [] has length 0
             THEN Failure("ZeroDivisionError", "division by zero")
             ELSE LET found == SearchFrom(pw, cw, al, n, 1, -1000, 0)
                  IN  IF found.index = 0
                      THEN Failure("ValueError", "No valid charging window found")
                      ELSE MakeWindow(al, n, found, q)

----------------------------------------------------------------------------
(* forecast_evolution.py: ForecastEvolutionTracker                         *)
(*                                                                         *)
(* The persisted file is target_forecasts, the entries in the insertion    *)
(* order of the JSON object, and last_cleanup of its metadata.  A snapshot *)
(* keeps the fields the tracker computes with; avg price, rating, window   *)
(* and timestamp are carried through unread, and the price volatility of   *)
(* the summary is left out.                                                *)

SIGNIFICANT_CHANGE_THRESHOLD == 10
RETENTION_DAYS == 30

None == [none |-> TRUE]

\* historical_mae is None
NoMae == -1

_calculate_confidence_le(days_until_target, price_source, mae) ==
    LET time_score ==
            IF days_until_target <= 1 THEN 100
            ELSE IF days_until_target = 2 THEN 85
            ELSE IF days_until_target <= 4 THEN 60
            ELSE Max(30, 100 - days_until_target * 10)
        source_score == IF price_source = "octopus_actual" THEN 100 ELSE 50
        accuracy_score ==
            IF mae = NoMae \/ mae > 50 THEN 400
            ELSE IF mae <= 20 THEN 1000
            ELSE Max(400, 1000 - mae * 12)
    IN  TruncDiv(400 * time_score + 350 * source_score + 25 * accuracy_score, 1000)

\* _calculate_confidence; mae is NoMae or the error in tenths of a penny
_calculate_confidence(days_until_target, price_source, mae) ==
    LET time_score ==
            IF days_until_target <= 1 THEN 100
            ELSE IF days_until_target = 2 THEN 85
            ELSE IF days_until_target <= 4 THEN 60
            ELSE Max(30, 100 - days_until_target * 10)
        source_score == IF price_source = "octopus_actual" THEN 100 ELSE 50
        \* accuracy score in tenths
        accuracy_score ==
            IF mae = NoMae \/ mae > 50 THEN 400
            ELSE IF mae < 20 THEN 1000
            ELSE Max(400, 1000 - mae * 12)
    IN  TruncDiv(400 * time_score + 350 * source_score + 25 * accuracy_score, 1000)

\* predicted_savings_pct = round(savings_pct, 2), in hundredths of a point
SavingsPct(dc) ==
    LET today_cost == dc.cost + dc.savings_vs_today
    IN  IF today_cost > 0
        THEN RoundDiv(dc.savings_vs_today * 10000, today_cost)
        ELSE 0

\* the snapshot record_snapshot builds
MakeSnapshot(now, target, dc, mae) ==
    [snapshot_date |-> now,
     days_until_target |-> target - now,
     price_source |-> dc.price_source,
     predicted_cost |-> dc.cost,
     predicted_savings_pct |-> SavingsPct(dc),
     confidence_score |-> _calculate_confidence(target - now, dc.price_source, mae)]

_calculate_evolution_summary_prev(snapshots) ==
    IF snapshots = <<>> THEN None
    ELSE LET initial == snapshots[Max(1, Len(snapshots) - 1)]
             current == snapshots[Len(snapshots)]
             drift == current.predicted_savings_pct - initial.predicted_savings_pct
         IN  [initial_savings_pct |-> initial.predicted_savings_pct,
              current_savings_pct |-> current.predicted_savings_pct,
              savings_drift |-> drift,
              savings_drift_direction |->
                  IF drift > 0 THEN "improved"
                  ELSE IF drift < 0 THEN "worsened" ELSE "unchanged",
              num_snapshots |-> Len(snapshots),
              first_snapshot |-> initial.snapshot_date]

\* _calculate_evolution_summary
_calculate_evolution_summary(snapshots) ==
    IF snapshots = <<>> THEN None
    ELSE LET initial == snapshots[1]
             current == snapshots[Len(snapshots)]
             drift == current.predicted_savings_pct - initial.predicted_savings_pct
         IN  [initial_savings_pct |-> initial.predicted_savings_pct,
              current_savings_pct |-> current.predicted_savings_pct,
              savings_drift |-> drift,
              savings_drift_direction |->
                  IF drift > 0 THEN "improved"
                  ELSE IF drift < 0 THEN "worsened" ELSE "unchanged",
              num_snapshots |-> Len(snapshots),
              first_snapshot |-> initial.snapshot_date]

\* index of the entry of target_date in the file, 0 when it has none
RECURSIVE IndexOf(_, _)
IndexOf(tf, target_date) ==
    IF tf = <<>> THEN 0
    ELSE IF tf[Len(tf)].target_date = target_date THEN Len(tf)
    ELSE IndexOf(SubSeq(tf, 1, Len(tf) - 1), target_date)

Tracked(tf, target_date) == IndexOf(tf, target_date) # 0

EntryOf(tf, target_date) == tf[IndexOf(tf, target_date)]

NewEntry(target_date) ==
    [target_date |-> target_date,
     snapshots |-> <<>>,
     evolution_summary |-> None,
     actual_result |-> None]

KeepOtherDays_all(snapshots, now) == snapshots

\* [s for s in snapshots if s["snapshot_date"] != today]
KeepOtherDays(snapshots, now) ==
    SelectSeq(snapshots, LAMBDA s : s.snapshot_date # now)

\* one step of the stable sort by snapshot_date
RECURSIVE InsertByDate(_, _)
InsertByDate(sorted, x) ==
    IF sorted = <<>> THEN <<x>>
    ELSE IF sorted[Len(sorted)].snapshot_date <= x.snapshot_date THEN Append(sorted, x)
    ELSE Append(InsertByDate(SubSeq(sorted, 1, Len(sorted) - 1), x),
                sorted[Len(sorted)])

RECURSIVE SortByDate(_)
SortByDate(s) ==
    IF s = <<>> THEN <<>>
    ELSE InsertByDate(SortByDate(SubSeq(s, 1, Len(s) - 1)), s[Len(s)])

SortSnapshots_none(snapshots) == snapshots

\* target_data["snapshots"].sort(key=lambda x: x["snapshot_date"])
SortSnapshots(snapshots) == SortByDate(snapshots)

IsPast_le(target, now) == target <= now

\* if target < today: return
IsPast(target, now) == target < now

\* the file record_snapshot saves
WithSnapshot(tf, now, target_date, dc, mae) ==
    LET tf1 == IF Tracked(tf, target_date) THEN tf
               ELSE Append(tf, NewEntry(target_date))
        k == IndexOf(tf1, target_date)
        snaps == SortSnapshots(
                     Append(KeepOtherDays(tf1[k].snapshots, now),
                            MakeSnapshot(now, target_date, dc, mae)))
    IN  [tf1 EXCEPT ![k].snapshots = snaps,
                    ![k].evolution_summary = _calculate_evolution_summary(snaps)]

IsSignificant_gt(drift) == Abs(drift) > SIGNIFICANT_CHANGE_THRESHOLD * 100

\* abs(drift) >= self.SIGNIFICANT_CHANGE_THRESHOLD
IsSignificant(drift) == Abs(drift) >= SIGNIFICANT_CHANGE_THRESHOLD * 100

\* detect_significant_change
detect_significant_change(tf, target_date) ==
    IF ~Tracked(tf, target_date) \/ Len(EntryOf(tf, target_date).snapshots) < 2
    THEN None
    ELSE LET snapshots == EntryOf(tf, target_date).snapshots
             latest == snapshots[Len(snapshots)]
             previous == snapshots[Len(snapshots) - 1]
             drift == latest.predicted_savings_pct - previous.predicted_savings_pct
         IN  IF IsSignificant(drift)
             THEN [target_date |-> target_date,
                   previous_savings_pct |-> previous.predicted_savings_pct,
                   current_savings_pct |-> latest.predicted_savings_pct,
                   savings_drift |-> drift,
                   drift_direction |-> IF drift > 0 THEN "improved" ELSE "worsened",
                   previous_snapshot_date |-> previous.snapshot_date,
                   current_snapshot_date |-> latest.snapshot_date,
                   confidence_score |-> latest.confidence_score,
                   price_source |-> latest.price_source]
             ELSE None

HasDrift_gt(summary, min_drift) ==
    summary # None /\ Abs(summary.savings_drift) > min_drift * 100

\* summary and abs(summary.get("savings_drift", 0)) >= min_drift
HasDrift(summary, min_drift) ==
    summary # None /\ Abs(summary.savings_drift) >= min_drift * 100

\* the list "drifted", in the order of the file
RECURSIVE Drifted(_, _)
Drifted(tf, min_drift) ==
    IF tf = <<>> THEN <<>>
    ELSE LET data == tf[1]
             summary == data.evolution_summary
             rest == Drifted(Tail(tf), min_drift)
         IN  IF HasDrift(summary, min_drift)
             THEN <<[target_date |-> data.target_date,
                     initial_savings_pct |-> summary.initial_savings_pct,
                     current_savings_pct |-> summary.current_savings_pct,
                     savings_drift |-> summary.savings_drift,
                     num_snapshots |-> Len(data.snapshots)]>> \o rest
             ELSE rest

\* one step of the stable sort by |drift|, largest first
RECURSIVE InsertByDrift(_, _)
InsertByDrift(sorted, x) ==
    IF sorted = <<>> THEN <<x>>
    ELSE IF Abs(sorted[Len(sorted)].savings_drift) >= Abs(x.savings_drift)
         THEN Append(sorted, x)
    ELSE Append(InsertByDrift(SubSeq(sorted, 1, Len(sorted) - 1), x),
                sorted[Len(sorted)])

RECURSIVE SortByDrift(_)
SortByDrift(s) ==
    IF s = <<>> THEN <<>>
    ELSE InsertByDrift(SortByDrift(SubSeq(s, 1, Len(s) - 1)), s[Len(s)])

\* get_forecasts_with_drift
get_forecasts_with_drift(tf, min_drift) == SortByDrift(Drifted(tf, min_drift))

Retained_gt(target, now) == target > now - RETENTION_DAYS

\* the entries cleanup_old_data keeps: target date >= cutoff
Retained(target, now) == target >= now - RETENTION_DAYS

AfterCleanup_all(tf, now) == <<>>

AfterCleanup(tf, now) == SelectSeq(tf, LAMBDA e : Retained(e.target_date, now))

----------------------------------------------------------------------------
(* forecast_tracker.py: ForecastTracker                                    *)
(*                                                                         *)
(* The persisted file is comparisons, a list of metrics records.  Prices   *)
(* are in tenths of a penny, the mean errors of a record in hundredths of  *)
(* a penny: the price lists of the model have 1 or 2 hours, so a mean is a *)
(* whole number of hundredths.  A record keeps the fields the tracker      *)
(* reads back; timestamp, source, rmse and the extremes are carried        *)
(* through unread.                                                         *)

\* comparisons[:90]
KEEP_COMPARISONS == 90

Min(a, b) == IF a <= b THEN a ELSE b

RECURSIVE SumSeq(_)
SumSeq(s) == IF s = <<>> THEN 0 ELSE s[1] + SumSeq(Tail(s))

\* [actual - forecast for actual, forecast in zip(actual_prices, forecast_prices)]
Errors(forecast_prices, actual_prices) ==
    [i \in 1..Min(Len(forecast_prices), Len(actual_prices)) |->
        actual_prices[i] - forecast_prices[i]]

AnyNegative(prices) == \E i \in DOMAIN prices : prices[i] < 0

\* the metrics dictionary record_comparison builds; the lists are not empty
Metrics(comparison_date, forecast_prices, actual_prices) ==
    LET errors == Errors(forecast_prices, actual_prices)
        abs_errors == [i \in DOMAIN errors |-> Abs(errors[i])]
        forecast_negative == AnyNegative(forecast_prices)
        actual_negative == AnyNegative(actual_prices)
    IN  [date |-> comparison_date,
         num_hours |-> Len(forecast_prices),
         mean_absolute_error |-> TruncDiv(SumSeq(abs_errors) * 10, Len(abs_errors)),
         mean_error |-> TruncDiv(SumSeq(errors) * 10, Len(errors)),
         negative_pricing |->
             [forecast_predicted |-> forecast_negative,
              actually_occurred |-> actual_negative,
              correct_prediction |-> forecast_negative = actual_negative]]

LengthsDiffer_never(forecast_prices, actual_prices) == FALSE

\* if len(forecast_prices) != len(actual_prices): raise ValueError
LengthsDiffer(forecast_prices, actual_prices) ==
    Len(forecast_prices) # Len(actual_prices)

WithoutDate_all(cs, d) == cs

\* [c for c in comparisons if c["date"] != metrics["date"]]
WithoutDate(cs, d) == SelectSeq(cs, LAMBDA c : c.date # d)

IsNewestFirst(s) == \A i \in 1..(Len(s) - 1) : s[i].date >= s[i + 1].date

\* one step of the stable sort by date, newest first: x goes behind the
\* entries of the ordered list that are not older than x
InsertNewestFirst(sorted, x) ==
    LET k == Cardinality({i \in DOMAIN sorted : sorted[i].date >= x.date})
    IN  SubSeq(sorted, 1, k) \o <<x>> \o SubSeq(sorted, k + 1, Len(sorted))

\* sorted(..., key=lambda x: x["date"], reverse=True); a list that is in
\* order already is its own stable sort
RECURSIVE SortNewestFirst(_)
SortNewestFirst(s) ==
    IF IsNewestFirst(s) THEN s
    ELSE InsertNewestFirst(SortNewestFirst(SubSeq(s, 1, Len(s) - 1)), s[Len(s)])

\* s[:n] for n >= 0
Prefix(s, n) == SubSeq(s, 1, Min(n, Len(s)))

KeepNewest_tail(cs) == SubSeq(cs, Max(1, Len(cs) - KEEP_COMPARISONS + 1), Len(cs))

\* comparisons[:90] of the list sorted newest first
KeepNewest(cs) == Prefix(cs, KEEP_COMPARISONS)

\* the file _save_comparison writes
_save_comparison(cs, metrics) ==
    KeepNewest(SortNewestFirst(Append(WithoutDate(cs, metrics.date), metrics)))

\* the outcome of record_comparison: the exception raised or the metrics returned
record_comparison(comparison_date, forecast_prices, actual_prices) ==
    IF LengthsDiffer(forecast_prices, actual_prices)
    THEN Failure("ValueError", "Price lists must be same length")
    ELSE IF Errors(forecast_prices, actual_prices) = <<>>
    THEN Failure("ZeroDivisionError", "division by zero")
    ELSE [kind |-> "metrics",
          metrics |-> Metrics(comparison_date, forecast_prices, actual_prices)]

MaeOf(cs) == [i \in DOMAIN cs |-> cs[i].mean_absolute_error]

\* recent_avg < older_avg - 0.5, the means as sum / n
IsImproving(recent_sum, recent_n, older_sum, older_n) ==
    recent_sum * older_n < older_sum * recent_n - 50 * recent_n * older_n

\* recent_avg > older_avg + 0.5
IsDegrading(recent_sum, recent_n, older_sum, older_n) ==
    recent_sum * older_n > older_sum * recent_n + 50 * recent_n * older_n

OlderSeven_strict(mae_values) ==
    IF Len(mae_values) >= 14 THEN SubSeq(mae_values, 8, 14) ELSE <<>>

\* mae_values[7:14] if len(mae_values) >= 14 else mae_values[7:]
OlderSeven(mae_values) ==
    IF Len(mae_values) >= 14 THEN SubSeq(mae_values, 8, 14)
    ELSE SubSeq(mae_values, 8, Len(mae_values))

\* the trend of get_recent_accuracy over the selected records
Trend(mae_values) ==
    IF Len(mae_values) >= 7
    THEN LET recent_7 == Prefix(mae_values, 7)
             older_7 == OlderSeven(mae_values)
         IN  IF older_7 # <<>>
             THEN IF IsImproving(SumSeq(recent_7), Len(recent_7),
                                 SumSeq(older_7), Len(older_7))
                  THEN "improving"
                  ELSE IF IsDegrading(SumSeq(recent_7), Len(recent_7),
                                      SumSeq(older_7), Len(older_7))
                  THEN "degrading"
                  ELSE "stable"
             ELSE "insufficient_data"
    ELSE "insufficient_data"

\* get_recent_accuracy(days); a mean is returned as the pair sum, n
get_recent_accuracy(cs, days) ==
    IF cs = <<>>
    THEN [num_comparisons |-> 0, mean_absolute_error |-> None,
          trend |-> "insufficient_data"]
    ELSE LET recent == Prefix(SortNewestFirst(cs), days)
         IN  IF recent = <<>>
             THEN [num_comparisons |-> 0, mean_absolute_error |-> None,
                   trend |-> "no_recent_data"]
             ELSE LET mae_values == MaeOf(recent)
                      neg_predictions ==
                          Cardinality({i \in DOMAIN recent :
                              recent[i].negative_pricing.forecast_predicted})
                      neg_correct ==
                          Cardinality({i \in DOMAIN recent :
                              recent[i].negative_pricing.correct_prediction})
                  IN  [num_comparisons |-> Len(recent),
                       period_days |-> days,
                       mean_absolute_error |->
                           [sum |-> SumSeq(mae_values), n |-> Len(mae_values)],
                       trend |-> Trend(mae_values),
                       negative_pricing_predictions |-> neg_predictions,
                       negative_pricing_correct |-> neg_correct,
                       negative_pricing_accuracy |->
                           IF neg_predictions > 0
                           THEN [num |-> neg_correct, den |-> neg_predictions]
                           ELSE None]

----------------------------------------------------------------------------
(* The window selector as a state machine: Init draws the arguments *)

PriceVals == {8, 22}
CarbonVals == {100, 101}
Times == 0..MaxTime
WeightPairs == {<<600, 400>>, <<1500, -500>>}

NoPrice == -1000

\* price lists with one entry per time, oldest first
RECURSIVE PriceList(_, _)
PriceList(f, t) ==
    IF t > MaxTime THEN <<>>
    ELSE IF f[t] = NoPrice THEN PriceList(f, t + 1)
    ELSE <<[time |-> t, price |-> f[t]]>> \o PriceList(f, t + 1)

Reverse(s) == [i \in 1..Len(s) |-> s[Len(s) + 1 - i]]

\* the price sources deliver the slots oldest first or newest first
PriceLists ==
    LET ascending == {PriceList(f, 0) : f \in [Times -> PriceVals \cup {NoPrice}]}
    IN  ascending \cup {Reverse(l) : l \in ascending}

\* carbon lists in time order with one entry per time
RECURSIVE CarbonList(_, _)
CarbonList(f, t) ==
    IF t > MaxTime THEN <<>>
    ELSE IF f[t] = NoCarbon THEN CarbonList(f, t + 1)
    ELSE <<[time |-> t, intensity |-> f[t]]>> \o CarbonList(f, t + 1)

CarbonLists == {CarbonList(f, 0) : f \in [Times -> CarbonVals \cup {NoCarbon}]}

NoResult == [kind |-> "none"]

\* metadata.last_cleanup is None
Never == -1

\* a path that does not exist
Absent == [doc |-> "none", chunks |-> 0]

PersistIdle ==
    /\ writer = [kind |-> "none", pc |-> "idle", previous |-> Absent,
                 write_failed |-> FALSE]
    /\ files = [f \in {"file", "tmp", "bak"} |-> Absent]

\* no call of the scorer
ScorerIdle ==
    scorer_call = [price_weight |-> DEFAULT_PRICE_WEIGHT,
                   carbon_weight |-> DEFAULT_CARBON_WEIGHT,
                   price |-> 0, carbon |-> 0]

AnalyzerIdle ==
    /\ price_weight = DEFAULT_PRICE_WEIGHT
    /\ carbon_weight = DEFAULT_CARBON_WEIGHT
    /\ price_slots = <<>>
    /\ carbon_slots = <<>>
    /\ charge_duration_q = 0
    /\ pc = "idle"
    /\ result = NoResult
    /\ ScorerIdle

EvolutionIdle ==
    /\ today = 0
    /\ target_forecasts = <<>>
    /\ last_cleanup = Never
    /\ last = [op |-> "none"]

\* no confidence computed yet
NoConfidence == -1

ConfidenceIdle ==
    conf_call = [days_until_target |-> 0, price_source |-> "forecast",
                 historical_mae |-> NoMae, ret |-> NoConfidence]

TrackerIdle ==
    /\ comparisons = <<>>
    /\ recorded_dates = {}
    /\ tracker_last = [op |-> "none"]

\* the rate-limit file does not exist and nothing was sent
NotifyDays == 0..MaxNotifyDay

NotifyIdle ==
    /\ clock_day = 0
    /\ rate_data = [d \in NotifyDays |-> 0]
    /\ delivered = [d \in NotifyDays |-> 0]
    /\ notify_last = [op |-> "none"]

\* BaseAPIClient(timeout=10, max_retries=3), fetch not called
DEFAULT_MAX_RETRIES == 3

FetchIdle ==
    /\ max_retries = DEFAULT_MAX_RETRIES
    /\ attempt = 0
    /\ fetch_pc = "idle"
    /\ responses = <<>>
    /\ sleeps = <<>>

\* the files of the data store do not exist: _load_json gives the default []
StoreIdle ==
    /\ forecast_history = <<>>
    /\ daily_recommendations = <<>>
    /\ user_actions = <<>>
    /\ store_last = [op |-> "none"]

\* neither daily_recommendations.json nor threshold_tuning.json exists
NoFile == [exists |-> FALSE, records |-> <<>>]

TunerIdle ==
    /\ tuner_today = 0
    /\ recommendations_file = NoFile
    /\ tuning_file = <<>>
    /\ tuner_last = [op |-> "none"]

\* get_status not called
NoStatus == [at |-> -1, ret |-> "none"]

StatusIdle ==
    /\ window = [start |-> 0, end |-> 0]
    /\ status_now = 0
    /\ status_last = NoStatus

\* _compare_days not called
PlannerIdle ==
    /\ multi_day_data = <<>>
    /\ compare_pc = "idle"
    /\ day_comparisons = <<>>

LaterIdleBut(component) ==
    /\ IF component = "notify" THEN TRUE ELSE NotifyIdle
    /\ IF component = "fetch" THEN TRUE ELSE FetchIdle
    /\ IF component = "store" THEN TRUE ELSE StoreIdle
    /\ IF component = "tuner" THEN TRUE ELSE TunerIdle
    /\ IF component = "status" THEN TRUE ELSE StatusIdle
    /\ IF component = "planner" THEN TRUE ELSE PlannerIdle

LaterIdle == LaterIdleBut("none")

EarlierIdle ==
    /\ AnalyzerIdle
    /\ EvolutionIdle
    /\ ConfidenceIdle
    /\ TrackerIdle
    /\ PersistIdle

InitAnalyzer ==
    /\ LaterIdle
    /\ \E w \in WeightPairs :
          /\ WeightsAccepted(w[1], w[2])
          /\ price_weight = w[1]
          /\ carbon_weight = w[2]
    /\ price_slots \in PriceLists
    /\ carbon_slots \in CarbonLists
    /\ charge_duration_q \in 0..MaxDurQ
    /\ pc = "call"
    /\ result = NoResult
    /\ ScorerIdle
    /\ EvolutionIdle
    /\ ConfidenceIdle
    /\ TrackerIdle
    /\ PersistIdle

FindOptimalWindow ==
    /\ pc = "call"
    /\ result' = find_optimal_window(price_weight, carbon_weight, price_slots,
                                     carbon_slots, charge_duration_q)
    /\ pc' = "done"
    /\ UNCHANGED <<price_weight, carbon_weight, price_slots, carbon_slots,
                   charge_duration_q, scorer_call>>
    /\ UNCHANGED outsideAnalyzer

NextAnalyzer == FindOptimalWindow

SpecAnalyzer == InitAnalyzer /\ [][NextAnalyzer]_vars

----------------------------------------------------------------------------
(* Claims about the window selector, checked under SpecAnalyzer *)

Returned == pc = "done" /\ result.kind = "window"

Aligned == _align_data(price_slots, carbon_slots)

Candidates == 1..(Len(Aligned) - SlotsNeeded(charge_duration_q) + 1)

CandidateScore(j) ==
    WindowScore(price_weight, carbon_weight, Aligned, j,
                SlotsNeeded(charge_duration_q))

\* C1: the window returned by find_optimal_window is a candidate window whose
\* opportunity score is the maximum over all start indices with slots_needed
\* aligned slots, and no candidate of that same score starts earlier.
C1_MaxScoreEarliestWins ==
    Returned =>
        \E i \in Candidates :
            /\ result.start = Aligned[i].time
            /\ result.end = Aligned[i + SlotsNeeded(charge_duration_q) - 1].time + 1
            /\ result.opportunity_score = CandidateScore(i)
            /\ \A j \in Candidates : CandidateScore(j) <= CandidateScore(i)
            /\ \A j \in Candidates :
                   CandidateScore(j) = CandidateScore(i)
                       => Aligned[j].time >= result.start

\* a returned window that tied with a later-starting candidate and beat a third
C1_Witness ==
    /\ Returned
    /\ \E j, k \in Candidates :
          /\ CandidateScore(j) = result.opportunity_score
          /\ Aligned[j].time > result.start
          /\ CandidateScore(k) < result.opportunity_score

\* C2: for every returned window, end - start is round(duration_hours * 2)
\* half-hour slots (the duration is charge_duration_q / 4 hours).
C2_LengthIsRoundedDuration ==
    Returned => result.end - result.start = RoundDiv(charge_duration_q * 2, 4)

\* C3: find_optimal_window either returns a window or fails with ValueError;
\* it fails with ValueError on an empty list, on lists that share no timestamp
\* and on fewer aligned slots than needed; a returned window is never built
\* from fewer slots than needed.
C3_WindowOrValueError ==
    pc = "done" =>
        /\ result.kind \in {"window", "ValueError"}
        /\ (price_slots = <<>> \/ carbon_slots = <<>>) => result.kind = "ValueError"
        /\ Aligned = <<>> => result.kind = "ValueError"
        /\ Len(Aligned) < SlotsNeeded(charge_duration_q) => result.kind = "ValueError"
        /\ result.kind = "window" => result.num_slots >= SlotsNeeded(charge_duration_q)

\* the slots of the returned window
ReturnedSlots ==
    LET i == CHOOSE i \in DOMAIN Aligned : Aligned[i].time = result.start
    IN  SubSeq(Aligned, i, i + result.num_slots - 1)

\* a / b = c / d for fractions with positive denominators
SameFraction(a, b, c, d) == a * d = c * b

\* kwh and total_cost as the claim has them: kwh = duration_hours * 7.4 and
\* total_cost = avg_price * kwh / 100 with avg_price the mean of the window
ClaimedKwhAndCost ==
    /\ SameFraction(result.kwh_charged.num, result.kwh_charged.den,
                    charge_duration_q * 74, 4 * 10)
    /\ SameFraction(result.total_cost.num, result.total_cost.den,
                    SumPrice(ReturnedSlots) * charge_duration_q * 74,
                    Len(ReturnedSlots) * 4 * 10 * 100)

\* C19 as stated: kwh = duration_hours * 7.4, total_cost = avg_price * kwh /
\* 100, and total_carbon = avg_carbon * kwh rounded to the nearest gram, with
\* avg_price and avg_carbon the arithmetic means over the slots of the window.
C19_TotalsRounded ==
    Returned =>
        /\ ClaimedKwhAndCost
        /\ result.total_carbon =
               RoundDiv(SumCarbon(ReturnedSlots) * charge_duration_q * 74,
                        Len(ReturnedSlots) * 4 * 10)

\* C19: kwh = duration_hours * 7.4 and total_cost = avg_price * kwh / 100 with
\* avg_price the mean price of the window; avg_carbon is the mean carbon
\* intensity of the window with its fraction dropped, and total_carbon is
\* avg_carbon * kwh with its fraction dropped.
C19_TotalsTruncated ==
    Returned =>
        /\ ClaimedKwhAndCost
        /\ result.avg_carbon
               = TruncDiv(SumCarbon(ReturnedSlots), Len(ReturnedSlots))
        /\ result.total_carbon
               = TruncDiv(result.avg_carbon * charge_duration_q * 74, 4 * 10)

\* a window of two slots whose mean carbon intensity is not whole and whose
\* total_carbon is below the rounded product of that mean and the energy
C19_Witness ==
    /\ Returned
    /\ result.num_slots = 2
    /\ SumCarbon(ReturnedSlots) % 2 = 1
    /\ result.total_carbon <
           RoundDiv(SumCarbon(ReturnedSlots) * charge_duration_q * 74,
                    Len(ReturnedSlots) * 4 * 10)

\* calculate_opportunity_score(avg_price, avg_carbon) on the fields of the
\* window returned: avg_price is price_sum / num_slots, avg_carbon is whole
ScoreOfFields ==
    calculate_opportunity_score(price_weight, carbon_weight, result.price_sum,
                                result.avg_carbon * result.num_slots,
                                result.num_slots)

\* C27: a window returned by find_optimal_window is consistent with its own
\* figures: its opportunity_score is the score of its avg_price and
\* avg_carbon fields and its rating is the class of that score.
C27_WindowSelfConsistent ==
    Returned =>
        /\ result.opportunity_score = ScoreOfFields
        /\ result.rating = classify_opportunity(ScoreOfFields)

----------------------------------------------------------------------------
(* The evolution tracker as a state machine *)

TargetDates == {0, 2}

\* the clock reads a day near the target dates or a day a retention period later
ClockDays == (0..MaxDay) \cup {MaxDay + RETENTION_DAYS}

\* day_comparison and historical_mae of a record_snapshot call
Predictions ==
    {[dc |-> [cost |-> 10, savings_vs_today |-> 0, price_source |-> "forecast"],
      mae |-> NoMae],
     [dc |-> [cost |-> 19, savings_vs_today |-> 1, price_source |-> "forecast"],
      mae |-> 30],
     [dc |-> [cost |-> 9, savings_vs_today |-> 1, price_source |-> "octopus_actual"],
      mae |-> 10]}

\* actual_cost and actual_avg_price of a record_actual_result call
ActualResults ==
    {[actual_cost |-> 100, actual_avg_price |-> 10],
     [actual_cost |-> 120, actual_avg_price |-> 12]}

MinDrifts == {0, 10}

InitEvolution ==
    /\ LaterIdle
    /\ AnalyzerIdle
    /\ EvolutionIdle
    /\ ConfidenceIdle
    /\ TrackerIdle
    /\ PersistIdle

\* the system clock reads another day
SetClock(d) ==
    /\ d # today
    /\ today' = d
    /\ last' = [op |-> "set_clock"]
    /\ UNCHANGED <<target_forecasts, last_cleanup>>
    /\ UNCHANGED outsideEvolution

\* record_snapshot(target_date, day_comparison, historical_mae)
RecordSnapshot(target_date, p) ==
    /\ IF IsPast(target_date, today)
       THEN UNCHANGED target_forecasts
       ELSE target_forecasts' =
                WithSnapshot(target_forecasts, today, target_date, p.dc, p.mae)
    /\ last' = [op |-> "record_snapshot", target_date |-> target_date,
                dc |-> p.dc, mae |-> p.mae,
                had_today |->
                    /\ Tracked(target_forecasts, target_date)
                    /\ \E i \in DOMAIN EntryOf(target_forecasts, target_date).snapshots :
                          EntryOf(target_forecasts, target_date).snapshots[i].snapshot_date
                              = today]
    /\ UNCHANGED <<today, last_cleanup>>
    /\ UNCHANGED outsideEvolution

\* detect_significant_change(target_date)
DetectSignificantChange(target_date) ==
    /\ last' = [op |-> "detect_significant_change", target_date |-> target_date,
                ret |-> detect_significant_change(target_forecasts, target_date)]
    /\ UNCHANGED <<today, target_forecasts, last_cleanup>>
    /\ UNCHANGED outsideEvolution

\* get_forecasts_with_drift(min_drift)
GetForecastsWithDrift(min_drift) ==
    /\ last' = [op |-> "get_forecasts_with_drift", min_drift |-> min_drift,
                ret |-> get_forecasts_with_drift(target_forecasts, min_drift)]
    /\ UNCHANGED <<today, target_forecasts, last_cleanup>>
    /\ UNCHANGED outsideEvolution

\* record_actual_result(target_date, actual_cost, actual_avg_price)
RecordActualResult(target_date, a) ==
    /\ IF ~Tracked(target_forecasts, target_date)
       THEN UNCHANGED target_forecasts
       ELSE target_forecasts' =
                [target_forecasts EXCEPT
                    ![IndexOf(target_forecasts, target_date)].actual_result = a]
    /\ last' = [op |-> "record_actual_result", target_date |-> target_date,
                actual |-> a]
    /\ UNCHANGED <<today, last_cleanup>>
    /\ UNCHANGED outsideEvolution

\* cleanup_old_data()
CleanupOldData ==
    LET kept == AfterCleanup(target_forecasts, today)
        removed == Len(target_forecasts) - Len(kept)
    IN  /\ IF removed > 0
           THEN /\ target_forecasts' = kept
                /\ last_cleanup' = today
           ELSE UNCHANGED <<target_forecasts, last_cleanup>>
        /\ last' = [op |-> "cleanup_old_data", ret |-> removed]
        /\ UNCHANGED today
        /\ UNCHANGED outsideEvolution

NextEvolution ==
    \/ \E d \in ClockDays : SetClock(d)
    \/ \E t \in TargetDates, p \in Predictions : RecordSnapshot(t, p)
    \/ \E t \in TargetDates : DetectSignificantChange(t)
    \/ \E m \in MinDrifts : GetForecastsWithDrift(m)
    \/ \E t \in TargetDates, a \in ActualResults : RecordActualResult(t, a)
    \/ CleanupOldData

SpecEvolution == InitEvolution /\ [][NextEvolution]_vars

\* the same tracker under a clock whose date never decreases
SetClockForward(d) ==
    /\ d > today
    /\ SetClock(d)

NextEvolutionForward ==
    \/ \E d \in ClockDays : SetClockForward(d)
    \/ \E t \in TargetDates, p \in Predictions : RecordSnapshot(t, p)
    \/ \E t \in TargetDates : DetectSignificantChange(t)
    \/ \E m \in MinDrifts : GetForecastsWithDrift(m)
    \/ \E t \in TargetDates, a \in ActualResults : RecordActualResult(t, a)
    \/ CleanupOldData

SpecEvolutionForward == InitEvolution /\ [][NextEvolutionForward]_vars

----------------------------------------------------------------------------
(* Claims about the evolution tracker, checked under SpecEvolution *)

SnapshotsOf(tf, target_date) ==
    IF Tracked(tf, target_date) THEN EntryOf(tf, target_date).snapshots ELSE <<>>

\* the snapshots of a target dated d
OnDay(tf, target_date, d) ==
    SelectSeq(SnapshotsOf(tf, target_date), LAMBDA s : s.snapshot_date = d)

\* the snapshots of a target dated another day than d
OffDay(tf, target_date, d) ==
    SelectSeq(SnapshotsOf(tf, target_date), LAMBDA s : s.snapshot_date # d)

OnePerDay(tf) ==
    \A k \in DOMAIN tf : \A i, j \in DOMAIN tf[k].snapshots :
        i # j => tf[k].snapshots[i].snapshot_date # tf[k].snapshots[j].snapshot_date

\* C4: every target holds at most one snapshot per snapshot day; a
\* record_snapshot call for a target that is not past leaves exactly one
\* snapshot dated today, carrying the values of that call, and keeps the
\* snapshots of the other days.
C4_OneSnapshotPerDay ==
    [][ /\ OnePerDay(target_forecasts')
        /\ (last'.op = "record_snapshot" /\ last'.target_date >= today) =>
              /\ OnDay(target_forecasts', last'.target_date, today)
                     = <<MakeSnapshot(today, last'.target_date, last'.dc, last'.mae)>>
              /\ OffDay(target_forecasts', last'.target_date, today)
                     = OffDay(target_forecasts, last'.target_date, today)
      ]_vars

\* a call replaced a snapshot of today while a snapshot of another day was kept
C4_Witness ==
    /\ last.op = "record_snapshot"
    /\ last.had_today
    /\ Len(SnapshotsOf(target_forecasts, last.target_date)) >= 2

\* C5: the snapshots of every target are in ascending order of snapshot date,
\* whatever the order of the days on which they were recorded.
C5_SnapshotsChronological ==
    \A k \in DOMAIN target_forecasts :
        \A i, j \in DOMAIN target_forecasts[k].snapshots :
            i < j => target_forecasts[k].snapshots[i].snapshot_date
                         <= target_forecasts[k].snapshots[j].snapshot_date

\* the last call recorded a snapshot on a day before one the target already had
C5_Witness ==
    /\ last.op = "record_snapshot"
    /\ last.target_date >= today
    /\ \E i \in DOMAIN SnapshotsOf(target_forecasts, last.target_date) :
          SnapshotsOf(target_forecasts, last.target_date)[i].snapshot_date > today

\* C6: record_snapshot with a target date before today changes nothing of the
\* persisted data; with a target date equal to today it records the snapshot.
C6_PastTargetIsNoOp ==
    [][ /\ (last'.op = "record_snapshot" /\ last'.target_date < today) =>
              /\ target_forecasts' = target_forecasts
              /\ last_cleanup' = last_cleanup
        /\ (last'.op = "record_snapshot" /\ last'.target_date = today) =>
              Len(OnDay(target_forecasts', last'.target_date, today)) = 1
      ]_vars

\* a call for a past target left a file that tracks another target
C6_Witness ==
    /\ last.op = "record_snapshot"
    /\ last.target_date < today
    /\ ~Tracked(target_forecasts, last.target_date)
    /\ target_forecasts # <<>>

\* C7: cleanup_old_data removes exactly the entries with a target date before
\* today - RETENTION_DAYS, leaves the other entries as they were and returns
\* the number of entries removed.
C7_CleanupRemovesExactlyOld ==
    [][ last'.op = "cleanup_old_data" =>
          /\ \A k \in DOMAIN target_forecasts :
                LET e == target_forecasts[k]
                IN  IF e.target_date < today - RETENTION_DAYS
                    THEN ~Tracked(target_forecasts', e.target_date)
                    ELSE /\ Tracked(target_forecasts', e.target_date)
                         /\ EntryOf(target_forecasts', e.target_date) = e
          /\ \A k \in DOMAIN target_forecasts' :
                Tracked(target_forecasts, target_forecasts'[k].target_date)
          /\ last'.ret = Len(target_forecasts) - Len(target_forecasts')
      ]_vars

\* a sweep removed an entry and kept the entry whose target date is the cut-off
C7_Witness ==
    /\ last.op = "cleanup_old_data"
    /\ last.ret >= 1
    /\ Tracked(target_forecasts, today - RETENTION_DAYS)

\* C8: once a target has an actual_result, a later record_actual_result call
\* for that target leaves the stored actual_result unchanged.
C8_ActualResultWrittenOnce ==
    [][ ( /\ last'.op = "record_actual_result"
          /\ Tracked(target_forecasts, last'.target_date)
          /\ EntryOf(target_forecasts, last'.target_date).actual_result # None )
        => EntryOf(target_forecasts', last'.target_date).actual_result
               = EntryOf(target_forecasts, last'.target_date).actual_result
      ]_vars

\* s is the snapshot of the latest date among the snapshots other than skip
MostRecent(snapshots, s, skip) ==
    /\ s \in {snapshots[i] : i \in DOMAIN snapshots} \ skip
    /\ \A i \in DOMAIN snapshots :
          snapshots[i] \notin skip => snapshots[i].snapshot_date <= s.snapshot_date

\* C9: detect_significant_change returns nothing for an untracked target or
\* fewer than 2 snapshots; otherwise it returns a change record iff the savings
\* of the two snapshots of the latest dates differ by at least 10 points, and
\* the record reports those two snapshots.
C9_SignificantChange ==
    last.op = "detect_significant_change" =>
        LET snapshots == SnapshotsOf(target_forecasts, last.target_date)
        IN  IF Len(snapshots) < 2 THEN last.ret = None
            ELSE \E latest, previous \in {snapshots[i] : i \in DOMAIN snapshots} :
                    /\ MostRecent(snapshots, latest, {})
                    /\ MostRecent(snapshots, previous, {latest})
                    /\ last.ret # None <=>
                          Abs(latest.predicted_savings_pct
                                  - previous.predicted_savings_pct) >= 1000
                    /\ last.ret # None =>
                          /\ last.ret.current_savings_pct = latest.predicted_savings_pct
                          /\ last.ret.previous_savings_pct = previous.predicted_savings_pct
                          /\ last.ret.current_snapshot_date = latest.snapshot_date
                          /\ last.ret.previous_snapshot_date = previous.snapshot_date

\* a change of exactly 10 points was reported for a target whose first snapshot
\* differs from the latest by less
C9_Witness ==
    /\ last.op = "detect_significant_change"
    /\ last.ret # None
    /\ Abs(last.ret.savings_drift) = 1000
    /\ LET snapshots == SnapshotsOf(target_forecasts, last.target_date)
       IN  /\ Len(snapshots) = 3
           /\ Abs(snapshots[3].predicted_savings_pct
                      - snapshots[1].predicted_savings_pct) < 1000

FirstToLast(snapshots) ==
    snapshots[Len(snapshots)].predicted_savings_pct - snapshots[1].predicted_savings_pct

DriftListed(ret, tf, Exceeds(_, _), min_drift) ==
    /\ {ret[i].target_date : i \in DOMAIN ret}
           = {tf[k].target_date : k \in {k \in DOMAIN tf :
                  Exceeds(Abs(FirstToLast(tf[k].snapshots)), min_drift * 100)}}
    /\ \A i, j \in DOMAIN ret : i # j => ret[i].target_date # ret[j].target_date
    /\ \A i \in DOMAIN ret :
          ret[i].savings_drift = FirstToLast(SnapshotsOf(tf, ret[i].target_date))
    /\ \A i, j \in DOMAIN ret :
          i < j => Abs(ret[i].savings_drift) >= Abs(ret[j].savings_drift)

StrictlyAbove(x, y) == x > y
AtLeast(x, y) == x >= y

\* C10 as stated: get_forecasts_with_drift returns exactly the targets whose
\* first-to-last drift exceeds min_drift in absolute value, largest first.
C10_DriftExceeds ==
    last.op = "get_forecasts_with_drift" =>
        DriftListed(last.ret, target_forecasts, StrictlyAbove, last.min_drift)

\* C10: get_forecasts_with_drift returns exactly the targets whose
\* first-to-last drift is at least min_drift in absolute value, in descending
\* order of that absolute drift.
C10_DriftAtLeast ==
    last.op = "get_forecasts_with_drift" =>
        DriftListed(last.ret, target_forecasts, AtLeast, last.min_drift)

\* two targets were listed, the later-tracked one first, and a target whose
\* first-to-last drift is exactly min_drift was included
C10_Witness ==
    /\ last.op = "get_forecasts_with_drift"
    /\ Len(last.ret) = 2
    /\ last.ret[1].target_date = target_forecasts[2].target_date
    /\ Abs(last.ret[1].savings_drift) > Abs(last.ret[2].savings_drift)
    /\ Abs(last.ret[2].savings_drift) = last.min_drift * 100

\* the snapshot of the earliest date
Earliest(snapshots, s) ==
    /\ s \in {snapshots[i] : i \in DOMAIN snapshots}
    /\ \A i \in DOMAIN snapshots : s.snapshot_date <= snapshots[i].snapshot_date

\* C11: the evolution_summary stored with every target agrees with the whole
\* of its snapshots: savings_drift is the savings of the latest snapshot minus
\* the savings of the earliest, the direction is improved, worsened or
\* unchanged by the sign of that drift, and num_snapshots is the number of
\* snapshots stored, which a same-day replacement does not raise.
C11_SummaryConsistent ==
    \A k \in DOMAIN target_forecasts :
        LET snapshots == target_forecasts[k].snapshots
            summary == target_forecasts[k].evolution_summary
        IN  /\ snapshots # <<>>
            /\ summary # None
            /\ \E first, latest \in {snapshots[i] : i \in DOMAIN snapshots} :
                  /\ Earliest(snapshots, first)
                  /\ MostRecent(snapshots, latest, {})
                  /\ summary.savings_drift
                         = latest.predicted_savings_pct - first.predicted_savings_pct
            /\ summary.savings_drift_direction =
                  (IF summary.savings_drift > 0 THEN "improved"
                   ELSE IF summary.savings_drift < 0 THEN "worsened" ELSE "unchanged")
            /\ summary.num_snapshots = Len(snapshots)
            /\ summary.num_snapshots
                  = Cardinality({snapshots[i].snapshot_date : i \in DOMAIN snapshots})

\* a call replaced the snapshot of today of a target with three snapshots whose
\* summary drift differs from the change between its last two snapshots
C11_Witness ==
    /\ last.op = "record_snapshot"
    /\ last.had_today
    /\ last.target_date >= today
    /\ LET e == EntryOf(target_forecasts, last.target_date)
       IN  /\ Len(e.snapshots) = 3
           /\ e.evolution_summary.num_snapshots = 3
           /\ e.evolution_summary.savings_drift # 0
           /\ e.evolution_summary.savings_drift
                  # e.snapshots[3].predicted_savings_pct
                      - e.snapshots[2].predicted_savings_pct

\* the retention period of the target has passed and it has no record
Expired(tf, now, target_date) ==
    /\ target_date < now - RETENTION_DAYS
    /\ ~Tracked(tf, target_date)

\* C30: under a clock that never goes back the lifecycle no-record, tracked,
\* expired only moves forward: a target is removed only once its retention
\* period has passed, and from then on it stays without a record: a later
\* record_snapshot or record_actual_result for it changes nothing.
C30_ExpiredStaysExpired ==
    [][ \A d \in TargetDates :
          /\ (Tracked(target_forecasts, d) /\ ~Tracked(target_forecasts', d)) =>
                (last'.op = "cleanup_old_data"
                    /\ Expired(target_forecasts', today', d))
          /\ Expired(target_forecasts, today, d) =>
                /\ Expired(target_forecasts', today', d)
                /\ (last'.op \in {"record_snapshot", "record_actual_result"}
                        /\ last'.target_date = d) =>
                      target_forecasts' = target_forecasts
      ]_vars

\* a sweep removed the target and record_snapshot was called for it afterwards
C30_Witness ==
    /\ last_cleanup # Never
    /\ \E d \in TargetDates :
          /\ Expired(target_forecasts, today, d)
          /\ last.op = "record_snapshot"
          /\ last.target_date = d

----------------------------------------------------------------------------
(* _calculate_confidence as a state machine: Init draws the arguments *)

MaxDaysOut == 8

\* historical_mae in tenths of a penny, or missing
MaeVals == {NoMae, 0, 19, 20, 22, 35, 50, 51}

PriceSources == {"forecast", "octopus_actual"}

InitConfidence ==
    /\ LaterIdle
    /\ AnalyzerIdle
    /\ EvolutionIdle
    /\ TrackerIdle
    /\ PersistIdle
    /\ \E d \in 0..MaxDaysOut, src \in PriceSources, mae \in MaeVals :
          conf_call = [days_until_target |-> d, price_source |-> src,
                       historical_mae |-> mae, ret |-> NoConfidence]

CalculateConfidence ==
    /\ conf_call.ret = NoConfidence
    /\ conf_call' = [conf_call EXCEPT !.ret =
                        _calculate_confidence(conf_call.days_until_target,
                                              conf_call.price_source,
                                              conf_call.historical_mae)]
    /\ UNCHANGED outsideConfidence

NextConfidence == CalculateConfidence

SpecConfidence == InitConfidence /\ [][NextConfidence]_vars

----------------------------------------------------------------------------
(* Claims about the confidence score, checked under SpecConfidence *)

\* the three sub-scores as the claim tabulates them; the accuracy score in tenths
ClaimedTimeScore(days) ==
    IF days <= 1 THEN 100
    ELSE IF days = 2 THEN 85
    ELSE IF days \in 3..4 THEN 60
    ELSE Max(30, 100 - 10 * days)

ClaimedSourceScore(src) == IF src = "octopus_actual" THEN 100 ELSE 50

ClaimedAccuracyScore(mae) ==
    IF mae # NoMae /\ mae < 20 THEN 1000
    ELSE IF mae = NoMae \/ mae > 50 THEN 400
    ELSE Max(400, 1000 - 12 * mae)

\* 0.40 time + 0.35 source + 0.25 accuracy, in thousandths
ClaimedBlend ==
    400 * ClaimedTimeScore(conf_call.days_until_target)
        + 350 * ClaimedSourceScore(conf_call.price_source)
        + 25 * ClaimedAccuracyScore(conf_call.historical_mae)

\* C12 as stated: the confidence is the weighted blend of the three sub-scores
\* rounded to the nearest integer.
C12_ConfidenceRounded ==
    conf_call.ret # NoConfidence => conf_call.ret = RoundDiv(ClaimedBlend, 1000)

\* C12: the confidence is the weighted blend of the three sub-scores with its
\* fraction dropped (int(), truncation toward zero).
C12_ConfidenceTruncated ==
    conf_call.ret # NoConfidence => conf_call.ret = TruncDiv(ClaimedBlend, 1000)

\* a confidence five or more days out with an error between 2 and 5 whose blend
\* has a fraction above one half
C12_Witness ==
    /\ conf_call.ret # NoConfidence
    /\ conf_call.days_until_target >= 5
    /\ conf_call.historical_mae \in 20..50
    /\ conf_call.ret < RoundDiv(ClaimedBlend, 1000)

----------------------------------------------------------------------------
(* The forecast accuracy tracker as a state machine.  Init is the file     *)
(* after a run of daily comparisons: older days with an error of 0.5p,     *)
(* then newer days with no error, up to LastDay.                           *)

MaxNewDays == 2

\* the date of the newest comparison of the initial file
LastDay == 100

\* a date before every date of the initial file
EarlyDay == 0

\* numbers of older and of newer days in the initial file
Histories == {<<0, 0>>, <<0, 7>>, <<7, 7>>, <<83, 7>>}

ForecastLists == {<<>>, <<100>>, <<-10, 100>>}
ActualLists == {<<>>, <<100>>, <<90, 100>>}

ComparisonDates == {EarlyDay} \cup (LastDay..(LastDay + MaxNewDays))

DaysArgs == {0, 7, 8, 14, 30}

\* the file after daily comparisons of the days up to LastDay
History(older, newer) ==
    [i \in 1..(older + newer) |->
        IF i <= newer
        THEN Metrics(LastDay + 1 - i, <<100>>, <<100>>)
        ELSE Metrics(LastDay + 1 - i, <<100>>, <<105>>)]

DatesOf(cs) == {cs[i].date : i \in DOMAIN cs}

InitTracker ==
    /\ LaterIdle
    /\ AnalyzerIdle
    /\ EvolutionIdle
    /\ ConfidenceIdle
    /\ PersistIdle
    /\ \E h \in Histories : comparisons = History(h[1], h[2])
    /\ recorded_dates = DatesOf(comparisons)
    /\ tracker_last = [op |-> "none"]

\* record_comparison(comparison_date, forecast_prices, actual_prices)
RecordComparison(comparison_date, forecast_prices, actual_prices) ==
    LET outcome == record_comparison(comparison_date, forecast_prices, actual_prices)
    IN  /\ IF outcome.kind = "metrics"
           THEN /\ comparisons' = _save_comparison(comparisons, outcome.metrics)
                /\ recorded_dates' = recorded_dates \cup {comparison_date}
           ELSE UNCHANGED <<comparisons, recorded_dates>>
        /\ tracker_last' = [op |-> "record_comparison",
                            date |-> comparison_date,
                            num_forecast |-> Len(forecast_prices),
                            num_actual |-> Len(actual_prices),
                            had_date |-> comparison_date \in DatesOf(comparisons),
                            outcome |-> outcome]
        /\ UNCHANGED outsideTracker

\* get_recent_accuracy(days)
GetRecentAccuracy(days) ==
    /\ tracker_last' = [op |-> "get_recent_accuracy", days |-> days,
                        ret |-> get_recent_accuracy(comparisons, days)]
    /\ UNCHANGED <<comparisons, recorded_dates>>
    /\ UNCHANGED outsideTracker

NextTracker ==
    \/ \E d \in ComparisonDates, f \in ForecastLists, a \in ActualLists :
          RecordComparison(d, f, a)
    \/ \E days \in DaysArgs : GetRecentAccuracy(days)

SpecTracker == InitTracker /\ [][NextTracker]_vars
----------------------------------------------------------------------------
(* Claims about the forecast accuracy tracker, checked under SpecTracker *)

DistinctDates(cs) ==
    \A i, j \in DOMAIN cs : i # j => cs[i].date # cs[j].date

RecordsOf(cs, d) == SelectSeq(cs, LAMBDA c : c.date = d)

Recorded == tracker_last.op = "record_comparison"
                /\ tracker_last.outcome.kind = "metrics"

\* C13: the stored records have pairwise distinct dates; recording a date that
\* is stored already leaves exactly one record of that date, the new one.
C13_OneRecordPerDate ==
    [][ /\ DistinctDates(comparisons')
        /\ ( /\ tracker_last'.op = "record_comparison"
              /\ tracker_last'.outcome.kind = "metrics"
              /\ tracker_last'.date \in DatesOf(comparisons) )
           => RecordsOf(comparisons', tracker_last'.date)
                  = <<tracker_last'.outcome.metrics>>
      ]_vars

\* a record of a full file was replaced by one with another error
C13_Witness ==
    /\ Recorded
    /\ tracker_last.had_date
    /\ tracker_last.date = LastDay
    /\ Len(comparisons) = KEEP_COMPARISONS
    /\ tracker_last.outcome.metrics.mean_absolute_error = 500
    /\ RecordsOf(comparisons, LastDay) = <<tracker_last.outcome.metrics>>

\* C14: the file holds at most 90 records, and they are the records of the 90
\* latest dates among all the dates recorded so far.
C14_NewestNinetyKept ==
    /\ Len(comparisons) <= 90
    /\ DatesOf(comparisons) =
           {d \in recorded_dates :
               Cardinality({x \in recorded_dates : x > d}) < 90}

\* a full file after comparisons that pushed out its oldest record and one
\* of a date older than all it holds
C14_Witness ==
    /\ Recorded
    /\ Len(comparisons) = 90
    /\ EarlyDay \in recorded_dates \ DatesOf(comparisons)
    /\ Cardinality(recorded_dates \ DatesOf(comparisons)) >= 2
    /\ LastDay + 1 \in DatesOf(comparisons)

\* C15: record_comparison with lists of different lengths fails with
\* ValueError and leaves the file as it was.
C15_LengthMismatchRejected ==
    [][ ( /\ tracker_last'.op = "record_comparison"
          /\ tracker_last'.num_forecast # tracker_last'.num_actual )
        => /\ tracker_last'.outcome.kind = "ValueError"
           /\ comparisons' = comparisons
      ]_vars

\* a two-hour forecast against a one-hour actual list was rejected for a date
\* the file holds
C15_Witness ==
    /\ tracker_last.op = "record_comparison"
    /\ tracker_last.num_forecast = 2
    /\ tracker_last.num_actual = 1
    /\ tracker_last.outcome.kind = "ValueError"
    /\ tracker_last.had_date
    /\ Len(comparisons) >= 14

\* the number of stored records newer than c, plus one
RankOf(cs, c) == Cardinality({x \in DatesOf(cs) : x > c.date}) + 1

RECURSIVE SumMae(_)
SumMae(records) ==
    IF records = {} THEN 0
    ELSE LET c == CHOOSE x \in records : TRUE
         IN  c.mean_absolute_error + SumMae(records \ {c})

\* the sum of the errors of the records ranked lo..hi by date, newest first
MaeSumRanked(cs, lo, hi) ==
    SumMae({cs[i] : i \in {i \in DOMAIN cs : RankOf(cs, cs[i]) \in lo..hi}})

\* the mean of 7 recent errors against the mean of older_n older errors
ComparedTrend(recent_sum, older_sum, older_n) ==
    IF recent_sum * older_n + 350 * older_n < 7 * older_sum THEN "improving"
    ELSE IF recent_sum * older_n > 7 * older_sum + 350 * older_n THEN "degrading"
    ELSE "stable"

\* the number of records a call with this days argument selects
Selected(cs, days) == Min(days, Len(cs))

\* C16 as stated: the trend is insufficient_data whenever fewer than 14
\* records are available; otherwise it compares the mean error of the 7 most
\* recent records with that of the next-older 7.
C16_TrendNeedsFourteen ==
    tracker_last.op = "get_recent_accuracy" =>
        IF Selected(comparisons, tracker_last.days) < 14
        THEN tracker_last.ret.trend = "insufficient_data"
        ELSE tracker_last.ret.trend =
                 ComparedTrend(MaeSumRanked(comparisons, 1, 7),
                               MaeSumRanked(comparisons, 8, 14), 7)

\* C16: the trend is insufficient_data for an empty file and for 1 to 7
\* selected records, and no_recent_data when days = 0 selects no record of a
\* file that has some; from 8 selected records on it compares the mean error
\* of the 7 most recent records with that of the next-older records, up to 7
\* of them: improving if more than 0.5 lower, degrading if more than 0.5
\* higher, else stable.
C16_TrendNeedsEight ==
    tracker_last.op = "get_recent_accuracy" =>
        LET n == Selected(comparisons, tracker_last.days)
        IN  IF comparisons = <<>> THEN tracker_last.ret.trend = "insufficient_data"
            ELSE IF n = 0 THEN tracker_last.ret.trend = "no_recent_data"
            ELSE IF n < 8 THEN tracker_last.ret.trend = "insufficient_data"
            ELSE tracker_last.ret.trend =
                     ComparedTrend(MaeSumRanked(comparisons, 1, 7),
                                   MaeSumRanked(comparisons, 8, Min(n, 14)),
                                   Min(n, 14) - 7)

\* an improving trend was reported over fewer than 14 records
C16_Witness ==
    /\ tracker_last.op = "get_recent_accuracy"
    /\ tracker_last.ret.num_comparisons \in 8..13
    /\ tracker_last.ret.trend = "improving"

\* the records that get_recent_accuracy(days) selects
SelectedRecords(cs, days) == SelectSeq(cs, LAMBDA c : RankOf(cs, c) <= days)

\* those of them whose forecast predicted negative pricing
PredictedNegative(cs, days) ==
    SelectSeq(SelectedRecords(cs, days),
              LAMBDA c : c.negative_pricing.forecast_predicted)

\* C28: negative_pricing_accuracy is None when no selected record's forecast
\* predicted negative pricing, and otherwise a ratio between 0 and 1: the
\* fraction of the selected records with a negative-pricing forecast whose
\* prediction was correct.
C28_NegativePricingRatio ==
    (tracker_last.op = "get_recent_accuracy"
        /\ tracker_last.ret.num_comparisons > 0) =>
        LET predicted == PredictedNegative(comparisons, tracker_last.days)
            correct == SelectSeq(predicted,
                           LAMBDA c : c.negative_pricing.correct_prediction)
            accuracy == tracker_last.ret.negative_pricing_accuracy
        IN  IF predicted = <<>> THEN accuracy = None
            ELSE /\ accuracy # None
                 /\ 0 <= accuracy.num
                 /\ accuracy.num <= accuracy.den
                 /\ accuracy.num * Len(predicted) = Len(correct) * accuracy.den
----------------------------------------------------------------------------
(* The opportunity scorer as a state machine: Init draws the arguments of  *)
(* the constructor and of calculate_opportunity_score; price_weight and    *)
(* carbon_weight are the attributes the constructor sets.                  *)

\* constructor arguments: sums of 1.0, within and beyond the tolerance
WeightArgs ==
    {<<600, 400>>, <<1000, 0>>, <<0, 1000>>, <<1500, -500>>,
     <<605, 400>>, <<600, 395>>, <<615, 400>>, <<600, 385>>,
     <<600, 420>>, <<500, 300>>}

ScoredPrices == {8, 12, 18, 25}
ScoredCarbons == {80, 120, 180, 250}

\* the attributes before the constructor has set them
Unset == 0

InitScorer ==
    /\ LaterIdle
    /\ \E w \in WeightArgs, p \in ScoredPrices, c \in ScoredCarbons :
          scorer_call = [price_weight |-> w[1], carbon_weight |-> w[2],
                         price |-> p, carbon |-> c]
    /\ price_weight = Unset
    /\ carbon_weight = Unset
    /\ price_slots = <<>>
    /\ carbon_slots = <<>>
    /\ charge_duration_q = 0
    /\ pc = "new"
    /\ result = NoResult
    /\ EvolutionIdle
    /\ ConfidenceIdle
    /\ TrackerIdle
    /\ PersistIdle

\* Analyzer(price_weight, carbon_weight)
Construct ==
    /\ pc = "new"
    /\ IF WeightsAccepted(scorer_call.price_weight, scorer_call.carbon_weight)
       THEN /\ price_weight' = scorer_call.price_weight
            /\ carbon_weight' = scorer_call.carbon_weight
            /\ pc' = "constructed"
            /\ UNCHANGED result
       ELSE /\ result' = Failure("ValueError", "Weights must sum to 1.0")
            /\ pc' = "rejected"
            /\ UNCHANGED <<price_weight, carbon_weight>>
    /\ UNCHANGED <<price_slots, carbon_slots, charge_duration_q, scorer_call>>
    /\ UNCHANGED outsideAnalyzer

\* calculate_opportunity_score(price, carbon)
Score ==
    /\ pc = "constructed"
    /\ result' = [kind |-> "score",
                  value |-> calculate_opportunity_score(
                                price_weight, carbon_weight,
                                scorer_call.price, scorer_call.carbon, 1)]
    /\ pc' = "scored"
    /\ UNCHANGED <<price_weight, carbon_weight, price_slots, carbon_slots,
                   charge_duration_q, scorer_call>>
    /\ UNCHANGED outsideAnalyzer

NextScorer == Construct \/ Score

SpecScorer == InitScorer /\ [][NextScorer]_vars

----------------------------------------------------------------------------
(* Claims about the opportunity scorer, checked under SpecScorer *)

WeightSumOff == Abs(scorer_call.price_weight + scorer_call.carbon_weight - 1000)

C18_ScoreInRange ==
    pc = "scored" => result.value >= 25000 /\ result.value <= 100000
----------------------------------------------------------------------------
(* One save of a persisted collection as a state machine.  The content of  *)
(* a file is the document it was written from (the previous content "old"  *)
(* or the content being saved "new") and the number of write calls of      *)
(* json.dump that have reached it; a document is complete after MaxChunks  *)
(* of them.  The process can stop between any two steps.                   *)

MaxChunks == 3

\* DataStore._save_json and _save_evolution_data write a temporary file and
\* rename it; _save_comparison and _save_tuning_record open the file itself
\* MultiDayPlanner._save_plan saves through DataStore._save_json and
\* _record_evolution_snapshots through record_snapshot and
\* _save_evolution_data; PushoverClient._save_rate_data opens the file itself
Writers ==
    {"data_store", "forecast_evolution", "forecast_tracker", "threshold_tuner",
     "multi_day_plan", "planner_snapshots", "rate_data"}

UsesTemp(kind) ==
    kind \in {"data_store", "forecast_evolution", "multi_day_plan",
              "planner_snapshots"}

\* if file_path.exists(): shutil.copy2(file_path, backup_path)
MakesBackup(kind) == kind \in {"data_store", "multi_day_plan"}

\* the operation that asked for the write catches the exception and logs it
Swallows(kind) == kind \in {"multi_day_plan", "planner_snapshots", "rate_data"}

\* the path the writer opens with mode "w"
Opened(kind) == IF UsesTemp(kind) THEN "tmp" ELSE "file"

Complete(doc) == [doc |-> doc, chunks |-> MaxChunks]

InitPersist ==
    /\ LaterIdle
    /\ AnalyzerIdle
    /\ EvolutionIdle
    /\ ConfidenceIdle
    /\ TrackerIdle
    /\ \E kind \in Writers, previous \in {Absent, Complete("old")} :
          /\ writer = [kind |-> kind, pc |-> "start", previous |-> previous,
                       write_failed |-> FALSE]
          /\ files = [f \in {"file", "tmp", "bak"} |->
                         IF f = "file" THEN previous ELSE Absent]

\* shutil.copy2(file_path, backup_path)
Backup ==
    /\ writer.pc = "start"
    /\ MakesBackup(writer.kind)
    /\ files["file"] # Absent
    /\ files' = [files EXCEPT !["bak"] = files["file"]]
    /\ writer' = [writer EXCEPT !.pc = "backed_up"]
    /\ UNCHANGED outsidePersist

\* open(path, "w"): the path exists and is empty
OpenForWrite ==
    /\ \/ writer.pc = "backed_up"
       \/ writer.pc = "start" /\ ~(MakesBackup(writer.kind) /\ files["file"] # Absent)
    /\ files' = [files EXCEPT ![Opened(writer.kind)] = [doc |-> "new", chunks |-> 0]]
    /\ writer' = [writer EXCEPT !.pc = "open"]
    /\ UNCHANGED outsidePersist

\* one write call of json.dump reaches the file
WriteChunk ==
    /\ writer.pc = "open"
    /\ files[Opened(writer.kind)].chunks < MaxChunks
    /\ files' = [files EXCEPT ![Opened(writer.kind)].chunks = @ + 1]
    /\ UNCHANGED writer
    /\ UNCHANGED outsidePersist

\* the with block ends after the last write; a direct writer is done
CloseFile ==
    /\ writer.pc = "open"
    /\ files[Opened(writer.kind)].chunks = MaxChunks
    /\ writer' = [writer EXCEPT !.pc =
                      IF UsesTemp(writer.kind) THEN "closed" ELSE "done"]
    /\ UNCHANGED files
    /\ UNCHANGED outsidePersist

\* temp_path.replace(file_path)
ReplaceFile ==
    /\ writer.pc = "closed"
    /\ files' = [files EXCEPT !["file"] = files["tmp"], !["tmp"] = Absent]
    /\ writer' = [writer EXCEPT !.pc = "done"]
    /\ UNCHANGED outsidePersist

\* a write raises IOError: the writers of a temporary file unlink it and
\* raise again, the others let the exception pass; the operation that asked
\* for the write either lets it reach its caller or catches it, logs it and
\* returns normally
WriteFails ==
    /\ writer.pc = "open"
    /\ files[Opened(writer.kind)].chunks < MaxChunks
    /\ files' = IF UsesTemp(writer.kind)
                THEN [files EXCEPT !["tmp"] = Absent]
                ELSE files
    /\ writer' = [writer EXCEPT
                      !.pc = IF Swallows(writer.kind) THEN "done" ELSE "raised",
                      !.write_failed = TRUE]
    /\ UNCHANGED outsidePersist

\* the process stops
Stop ==
    /\ writer.pc \notin {"done", "raised", "stopped"}
    /\ writer' = [writer EXCEPT !.pc = "stopped"]
    /\ UNCHANGED files
    /\ UNCHANGED outsidePersist

NextPersist ==
    \/ Backup
    \/ OpenForWrite
    \/ WriteChunk
    \/ CloseFile
    \/ ReplaceFile
    \/ WriteFails
    \/ Stop

SpecPersist == InitPersist /\ [][NextPersist]_vars

----------------------------------------------------------------------------
(* Claims about persistence, checked under SpecPersist *)

\* C20: every write of a persisted collection is atomic: wherever the process
\* stops, the file of the collection holds the complete previous content or
\* the complete new content.
C20_WritesAtomic ==
    writer.pc = "stopped" =>
        files["file"] \in {writer.previous, Complete("new")}

\* C21: a failure to write persisted state is surfaced: whenever the write of
\* a persisted collection fails, the operation that asked for it fails with
\* an error and never completes as if the write had happened.
C21_WriteFailureSurfaced ==
    writer.write_failed => writer.pc = "raised"
----------------------------------------------------------------------------
(* pushover.py: PushoverClient.send_notification and its rate limit.  The  *)
(* rate-limit file maps a date to the count recorded for it (0 where the   *)
(* date is missing); delivered counts the posts the service answered with  *)
(* status 1.                                                               *)

MAX_DAILY_NOTIFICATIONS == 5

\* _load_rate_data: the content of the file, {} when it cannot be read
_load_rate_data(file, load_ok) ==
    IF load_ok THEN file ELSE [d \in DOMAIN file |-> 0]

\* _check_rate_limit: today_count >= MAX_DAILY_NOTIFICATIONS gives False
_check_rate_limit(file, day, load_ok) ==
    ~(_load_rate_data(file, load_ok)[day] >= MAX_DAILY_NOTIFICATIONS)

\* _record_notification: load, count one more for today, save; a save that
\* fails is logged and leaves the file as it was
_record_notification(file, day, load_ok, save_ok) ==
    IF save_ok
    THEN [_load_rate_data(file, load_ok) EXCEPT ![day] = @ + 1]
    ELSE file

\* the answers of the service: status 1, another status, a request error
ServiceAnswers == {"sent", "api_error", "request_error"}

InitNotify ==
    /\ EarlierIdle
    /\ LaterIdleBut("notify")
    /\ clock_day = 0
    /\ rate_data = [d \in NotifyDays |-> 0]
    /\ delivered = [d \in NotifyDays |-> 0]
    /\ notify_last = [op |-> "none"]

\* send_notification(title, message, priority, ...)
SendNotification(valid, attached, answer, check_load_ok, record_load_ok, save_ok) ==
    /\ delivered[clock_day] < MaxDelivered
    /\ LET allowed == _check_rate_limit(rate_data, clock_day, check_load_ok)
           contacted == valid /\ allowed /\ attached
           sent == contacted /\ answer = "sent"
       IN /\ delivered' = IF sent
                          THEN [delivered EXCEPT ![clock_day] = @ + 1]
                          ELSE delivered
          /\ rate_data' = IF sent
                          THEN _record_notification(rate_data, clock_day,
                                                    record_load_ok, save_ok)
                          ELSE rate_data
          /\ notify_last' =
                [op |-> "send_notification",
                 day |-> clock_day,
                 count_before |-> rate_data[clock_day],
                 contacted |-> contacted,
                 ret |-> IF ~valid THEN "ValueError"
                         ELSE IF sent THEN "True" ELSE "False"]
    /\ UNCHANGED clock_day
    /\ UNCHANGED earlierVars
    /\ LaterUnchangedBut("notify")

\* midnight passes
NextDate ==
    /\ clock_day < MaxNotifyDay
    /\ clock_day' = clock_day + 1
    /\ UNCHANGED <<rate_data, delivered, notify_last>>
    /\ UNCHANGED earlierVars
    /\ LaterUnchangedBut("notify")

NextNotify ==
    \/ \E valid, attached, check_load_ok, record_load_ok, save_ok \in BOOLEAN,
          answer \in ServiceAnswers :
          SendNotification(valid, attached, answer, check_load_ok,
                           record_load_ok, save_ok)
    \/ NextDate

SpecNotify == InitNotify /\ [][NextNotify]_vars

----------------------------------------------------------------------------
(* Claims about the notifier, checked under SpecNotify *)

\* C22: within one calendar day no more than 5 notifications are sent to the
\* push service; once 5 sends are recorded for the day every further call
\* returns False without contacting the service; a failed send does not
\* consume quota.
C22_DailyCap ==
    /\ \A d \in NotifyDays : delivered[d] <= MAX_DAILY_NOTIFICATIONS
    /\ notify_last.op = "send_notification" =>
          /\ notify_last.count_before >= MAX_DAILY_NOTIFICATIONS =>
                notify_last.ret = "False" /\ ~notify_last.contacted
          /\ notify_last.ret = "False" =>
                rate_data[notify_last.day] = notify_last.count_before
----------------------------------------------------------------------------
(* octopus_api.py: BaseAPIClient.fetch, one call.  The loop                *)
(* for attempt in range(self.max_retries) is followed one request and one  *)
(* sleep at a time.                                                        *)

\* requests.get(...); raise_for_status(); response.json()
RequestOutcomes == {"ok", "timeout", "http_error", "request_error"}

\* if attempt == self.max_retries - 1: raise
IsLastAttempt(a, retries) == a = retries - 1

Backoff_fixed(a) == 5

\* time.sleep(5 * (2**attempt))
Backoff(a) == 5 * 2^a

InitFetch ==
    /\ EarlierIdle
    /\ LaterIdleBut("fetch")
    /\ max_retries \in 0..MaxRetries
    /\ attempt = 0
    /\ fetch_pc = "loop"
    /\ responses = <<>>
    /\ sleeps = <<>>

\* the try block of one iteration and the except clause that catches
Request(outcome) ==
    /\ fetch_pc = "loop"
    /\ attempt < max_retries
    /\ responses' = Append(responses, outcome)
    /\ fetch_pc' = IF outcome = "ok" THEN "returned"
                   ELSE IF IsLastAttempt(attempt, max_retries) THEN "raised"
                   ELSE "sleep"
    /\ UNCHANGED <<max_retries, attempt, sleeps>>
    /\ UNCHANGED earlierVars
    /\ LaterUnchangedBut("fetch")

\* time.sleep(...) and the next value of range(self.max_retries)
Sleep ==
    /\ fetch_pc = "sleep"
    /\ sleeps' = Append(sleeps, Backoff(attempt))
    /\ attempt' = attempt + 1
    /\ fetch_pc' = "loop"
    /\ UNCHANGED <<max_retries, responses>>
    /\ UNCHANGED earlierVars
    /\ LaterUnchangedBut("fetch")

\* the range is exhausted: raise RequestException("All retry attempts failed")
LoopEnds ==
    /\ fetch_pc = "loop"
    /\ ~(attempt < max_retries)
    /\ fetch_pc' = "raised"
    /\ UNCHANGED <<max_retries, attempt, responses, sleeps>>
    /\ UNCHANGED earlierVars
    /\ LaterUnchangedBut("fetch")

NextFetch ==
    \/ \E outcome \in RequestOutcomes : Request(outcome)
    \/ Sleep
    \/ LoopEnds

\* every step of the call is taken: a request ends by its timeout and a
\* sleep by its duration
SpecFetch == InitFetch /\ [][NextFetch]_vars /\ WF_vars(NextFetch)

----------------------------------------------------------------------------
(* Claims about the API client, checked under SpecFetch *)

FetchEnded == fetch_pc \in {"returned", "raised"}

\* the waits of a capped exponential backoff: 5 s doubled after each failed
\* attempt, never above the wait before the last attempt the count allows
ClaimedWaits ==
    /\ Len(sleeps) = IF responses = <<>> THEN 0 ELSE Len(responses) - 1
    /\ \A k \in DOMAIN sleeps :
          /\ sleeps[k] = 5 * 2^(k - 1)
          /\ sleeps[k] <= 5 * 2^(max_retries - 2)

FetchSafe ==
    /\ Len(responses) <= max_retries
    /\ \A k \in DOMAIN responses :
          responses[k] = "ok" => k = Len(responses) /\ fetch_pc = "returned"
    /\ fetch_pc = "returned" =>
          responses # <<>> /\ responses[Len(responses)] = "ok"
    /\ fetch_pc = "raised" =>
          /\ Len(responses) = max_retries
          /\ \A k \in DOMAIN responses : responses[k] # "ok"
    /\ FetchEnded => ClaimedWaits

----------------------------------------------------------------------------
(* data_store.py: DataStore.save_forecast, save_recommendation and         *)
(* save_user_action.  A record is a dict of JSON values: it maps each      *)
(* field name to Missing (no such key), to the value the caller gave, or   *)
(* to a value the store made up (the time of the save, a default).  A      *)
(* collection is the list that _load_json reads back from its file.        *)

StoreFields ==
    {"timestamp", "date", "data", "source", "rating", "saved_at", "logged_at"}

Missing == "missing"

\* the records a caller can pass: any set of keys, each with its own value
RecordInputs == [StoreFields -> {Missing, "given"}]

\* datetime.now().isoformat()
Now == "now"

\* save_forecast: the entry built from timestamp, data and source
ForecastEntry(forecast) ==
    [f \in StoreFields |->
        CASE f = "timestamp" -> forecast["timestamp"]
          [] f = "saved_at" -> Now
          [] f = "data" -> IF forecast["data"] = Missing THEN "empty_list"
                           ELSE forecast["data"]
          [] f = "source" -> IF forecast["source"] = Missing THEN "unknown"
                             ELSE forecast["source"]
          [] OTHER -> Missing]

\* save_recommendation: {**recommendation, "saved_at": now}
RecommendationEntry(recommendation) ==
    [recommendation EXCEPT !["saved_at"] = Now]

\* save_user_action: action["timestamp"] = now if the key is missing
ActionAfterSave(action) ==
    IF action["timestamp"] = Missing
    THEN [action EXCEPT !["timestamp"] = Now]
    ELSE action

\* save_user_action: {**action, "logged_at": now}
ActionEntry(action) == [ActionAfterSave(action) EXCEPT !["logged_at"] = Now]

Stored == Len(forecast_history) + Len(daily_recommendations) + Len(user_actions)

InitStore ==
    /\ EarlierIdle
    /\ LaterIdleBut("store")
    /\ forecast_history = <<>>
    /\ daily_recommendations = <<>>
    /\ user_actions = <<>>
    /\ store_last = [op |-> "none"]

SaveForecast(forecast) ==
    /\ Stored < MaxStored
    /\ IF forecast["timestamp"] = Missing
       THEN /\ store_last' = [op |-> "save_forecast", passed |-> forecast,
                              caller_after |-> forecast, ret |-> "ValueError"]
            /\ UNCHANGED forecast_history
       ELSE /\ forecast_history' =
                  Append(forecast_history, ForecastEntry(forecast))
            /\ store_last' = [op |-> "save_forecast", passed |-> forecast,
                              caller_after |-> forecast, ret |-> "saved"]
    /\ UNCHANGED <<daily_recommendations, user_actions>>
    /\ UNCHANGED earlierVars
    /\ LaterUnchangedBut("store")

SaveRecommendation(recommendation) ==
    /\ Stored < MaxStored
    /\ IF recommendation["date"] = Missing
       THEN /\ store_last' = [op |-> "save_recommendation",
                              passed |-> recommendation,
                              caller_after |-> recommendation,
                              ret |-> "ValueError"]
            /\ UNCHANGED daily_recommendations
       ELSE /\ daily_recommendations' =
                  Append(daily_recommendations,
                         RecommendationEntry(recommendation))
            /\ store_last' = [op |-> "save_recommendation",
                              passed |-> recommendation,
                              caller_after |-> recommendation,
                              ret |-> "saved"]
    /\ UNCHANGED <<forecast_history, user_actions>>
    /\ UNCHANGED earlierVars
    /\ LaterUnchangedBut("store")

SaveUserAction(action) ==
    /\ Stored < MaxStored
    /\ user_actions' = Append(user_actions, ActionEntry(action))
    /\ store_last' = [op |-> "save_user_action", passed |-> action,
                      caller_after |-> ActionAfterSave(action),
                      ret |-> "saved"]
    /\ UNCHANGED <<forecast_history, daily_recommendations>>
    /\ UNCHANGED earlierVars
    /\ LaterUnchangedBut("store")

NextStore ==
    \/ \E forecast \in RecordInputs : SaveForecast(forecast)
    \/ \E recommendation \in RecordInputs : SaveRecommendation(recommendation)
    \/ \E action \in RecordInputs : SaveUserAction(action)

SpecStore == InitStore /\ [][NextStore]_vars

----------------------------------------------------------------------------
(* Claims about the data store, checked under SpecStore *)

\* the entry that get_latest_forecast, get_recommendation_by_date and
\* get_user_actions give back for the record saved last
Retrieved ==
    CASE store_last.op = "save_forecast" ->
             forecast_history[Len(forecast_history)]
      [] store_last.op = "save_recommendation" ->
             daily_recommendations[Len(daily_recommendations)]
      [] store_last.op = "save_user_action" ->
             user_actions[Len(user_actions)]

\* C24: the data store stores and retrieves records verbatim: after
\* save_forecast, save_recommendation or save_user_action every field of the
\* record passed in is retrievable with its original value, and the caller's
\* record is left as it was.
C24_StoredVerbatim ==
    (store_last.op # "none" /\ store_last.ret = "saved") =>
        /\ \A f \in StoreFields :
              store_last.passed[f] # Missing =>
                  Retrieved[f] = store_last.passed[f]
        /\ store_last.caller_after = store_last.passed
----------------------------------------------------------------------------
(* threshold_tuner.py: ThresholdTuner.  Prices and thresholds are in       *)
(* tenths of a penny, which is what round(x, 1) leaves; dates are days.    *)
(* The recommendations read carry a timestamp and an avg_price (or none)   *)
(* and no avg_carbon, so the carbon thresholds are the defaults and are    *)
(* left out of the record.                                                 *)

TUNING_DAYS == 30
TUNING_RETENTION_DAYS == 90
MIN_TUNING_DAYS == 7
TUNER_PRICE_EXCELLENT == 100
TUNER_PRICE_GOOD == 150
UPDATE_DIFFERENCE == 20

\* "avg_price" not in rec
NoAvgPrice == -1

RECURSIVE InsertAscending(_, _)
InsertAscending(sorted, x) ==
    IF sorted = <<>> THEN <<x>>
    ELSE IF x < sorted[1] THEN <<x>> \o sorted
    ELSE <<sorted[1]>> \o InsertAscending(Tail(sorted), x)

RECURSIVE Ascending(_)
Ascending(s) ==
    IF s = <<>> THEN <<>> ELSE InsertAscending(Ascending(Tail(s)), s[1])

\* round(statistics.quantiles(data, n=4)[0], 1), for 7 values or more
FirstQuartile(data) ==
    LET sorted == Ascending(data)
        m == Len(sorted) + 1
        j == m \div 4
        delta == m % 4
    IN  RoundDiv(sorted[j] * (4 - delta) + sorted[j + 1] * delta, 4)

\* round(statistics.median(data), 1)
Median(data) ==
    LET sorted == Ascending(data)
        n == Len(sorted)
    IN  IF n % 2 = 1 THEN sorted[(n + 1) \div 2]
        ELSE RoundDiv(sorted[n \div 2] + sorted[n \div 2 + 1], 2)

calculate_optimal_thresholds(historical_prices) ==
    IF Len(historical_prices) < MIN_TUNING_DAYS
    THEN <<TUNER_PRICE_EXCELLENT, TUNER_PRICE_GOOD>>
    ELSE <<FirstQuartile(historical_prices), Median(historical_prices)>>

_default_thresholds(now) ==
    [price_excellent |-> TUNER_PRICE_EXCELLENT, price_good |-> TUNER_PRICE_GOOD,
     days_analyzed |-> 0, last_updated |-> now, using_defaults |-> TRUE]

AvgPrices(recs) ==
    LET with_price == SelectSeq(recs, LAMBDA r : r.avg_price # NoAvgPrice)
    IN  [i \in DOMAIN with_price |-> with_price[i].avg_price]

\* the recommendations of the last 30 days
RecentRecommendations(file, now) ==
    SelectSeq(file.records, LAMBDA r : r.timestamp >= now - TUNING_DAYS)

\* whether get_recommended_thresholds goes on to line 149
ReachesSave(file, now) ==
    /\ file.exists
    /\ file.records # <<>>
    /\ ~(Len(RecentRecommendations(file, now)) < MIN_TUNING_DAYS)
    /\ AvgPrices(RecentRecommendations(file, now)) # <<>>

\* the result dict of get_recommended_thresholds
get_recommended_thresholds(file, now) ==
    IF ~ReachesSave(file, now) THEN _default_thresholds(now)
    ELSE LET recent == RecentRecommendations(file, now)
             thresholds == calculate_optimal_thresholds(AvgPrices(recent))
         IN  [price_excellent |-> thresholds[1], price_good |-> thresholds[2],
              days_analyzed |-> Len(recent), last_updated |-> now,
              using_defaults |-> FALSE]

\* _save_tuning_record: append, keep the last 90 days, write
_save_tuning_record(records, record, now) ==
    SelectSeq(Append(records, record),
              LAMBDA r : r.last_updated >= now - TUNING_RETENTION_DAYS)

\* current_thresholds.get("price_excellent", 10) and .get("price_good", 15)
CurrentThresholds ==
    {[price_excellent |-> TUNER_PRICE_EXCELLENT, price_good |-> TUNER_PRICE_GOOD],
     [price_excellent |-> 70, price_good |-> 150],
     [price_excellent |-> 100, price_good |-> 100]}

Recommendation(day, price) == [timestamp |-> day, avg_price |-> price]

\* contents of daily_recommendations.json: no file, an empty list, six
\* recent days, seven days without avg_price, seven days of which one
\* leaves the 30-day period on day 2, seven and eight recent days
RecommendationFiles ==
    {NoFile,
     [exists |-> TRUE, records |-> <<>>],
     [exists |-> TRUE, records |-> [i \in 1..6 |-> Recommendation(0, 80)]],
     [exists |-> TRUE, records |-> [i \in 1..7 |-> Recommendation(0, NoAvgPrice)]],
     [exists |-> TRUE,
      records |-> [i \in 1..7 |-> Recommendation(IF i = 1 THEN -29 ELSE 0, 80)]],
     [exists |-> TRUE,
      records |-> [i \in 1..7 |->
                     Recommendation(0, <<220, 80, 100, 180, 90, 120, 140>>[i])]],
     [exists |-> TRUE,
      records |-> [i \in 1..8 |->
                     Recommendation(0, <<220, 80, 100, 180, 90, 120, 140, 250>>[i])]]}

\* threshold_tuning.json at the start: no file, or one record that leaves the
\* 90-day period on day 2
TuningFiles ==
    {<<>>,
     <<[price_excellent |-> 90, price_good |-> 120, days_analyzed |-> 7,
        last_updated |-> -89, using_defaults |-> FALSE]>>}

InitTuner ==
    /\ EarlierIdle
    /\ LaterIdleBut("tuner")
    /\ tuner_today = 0
    /\ recommendations_file \in RecommendationFiles
    /\ tuning_file \in TuningFiles
    /\ tuner_last = [op |-> "none"]

\* should_update_thresholds(current_thresholds)
ShouldUpdateThresholds(current_thresholds) ==
    /\ Len(tuning_file) < MaxTuningRecords
    /\ LET recommended ==
               get_recommended_thresholds(recommendations_file, tuner_today)
           price_diff_excellent ==
               Abs(current_thresholds.price_excellent - recommended.price_excellent)
           price_diff_good ==
               Abs(current_thresholds.price_good - recommended.price_good)
       IN /\ tuning_file' =
                 IF ReachesSave(recommendations_file, tuner_today)
                 THEN _save_tuning_record(tuning_file, recommended, tuner_today)
                 ELSE tuning_file
          /\ tuner_last' =
                 [op |-> "should_update_thresholds",
                  history_before |-> tuning_file,
                  recommended |-> recommended,
                  ret |-> price_diff_excellent > UPDATE_DIFFERENCE
                          \/ price_diff_good > UPDATE_DIFFERENCE]
    /\ UNCHANGED <<tuner_today, recommendations_file>>
    /\ UNCHANGED earlierVars
    /\ LaterUnchangedBut("tuner")

\* midnight passes
TunerNextDay ==
    /\ tuner_today < MaxTunerDay
    /\ tuner_today' = tuner_today + 1
    /\ tuner_last' = [op |-> "none"]
    /\ UNCHANGED <<recommendations_file, tuning_file>>
    /\ UNCHANGED earlierVars
    /\ LaterUnchangedBut("tuner")

NextTuner ==
    \/ \E current_thresholds \in CurrentThresholds :
          ShouldUpdateThresholds(current_thresholds)
    \/ TunerNextDay

SpecTuner == InitTuner /\ [][NextTuner]_vars

----------------------------------------------------------------------------
(* Claims about the threshold tuner, checked under SpecTuner *)

\* C25: should_update_thresholds only reads: it returns a boolean and leaves
\* the persisted tuning history and the recommendations as they were before
\* the call.
C25_TunerStateless ==
    tuner_last.op = "should_update_thresholds" =>
        /\ tuner_last.ret \in BOOLEAN
        /\ tuning_file = tuner_last.history_before
----------------------------------------------------------------------------
(* analyzer.py: ChargingWindow.get_status.  A window is the pair of its    *)
(* start and end; as find_optimal_window builds it, the end is never       *)
(* before the start.                                                       *)

get_status_early(start, end, t) ==
    IF t < start THEN "upcoming"
    ELSE IF t >= end THEN "passed"
    ELSE "active"

get_status(start, end, t) ==
    IF t < start THEN "upcoming"
    ELSE IF t > end THEN "passed"
    ELSE "active"

ClockTimes == 0..MaxClock

InitStatus ==
    /\ EarlierIdle
    /\ LaterIdleBut("status")
    /\ \E start \in ClockTimes, end \in ClockTimes :
          /\ start <= end
          /\ window = [start |-> start, end |-> end]
    /\ status_now \in ClockTimes
    /\ status_last = NoStatus

\* window.get_status(current_time)
GetStatus ==
    /\ status_last' = [at |-> status_now,
                       ret |-> get_status(window.start, window.end, status_now)]
    /\ UNCHANGED <<window, status_now>>
    /\ UNCHANGED earlierVars
    /\ LaterUnchangedBut("status")

\* time passes
Tick ==
    /\ status_now < MaxClock
    /\ status_now' = status_now + 1
    /\ UNCHANGED <<window, status_last>>
    /\ UNCHANGED earlierVars
    /\ LaterUnchangedBut("status")

NextStatus == GetStatus \/ Tick

SpecStatus == InitStatus /\ [][NextStatus]_vars

----------------------------------------------------------------------------
(* Claims about the status of a window, checked under SpecStatus *)

StatusRank(status) ==
    CASE status = "none" -> 0
      [] status = "upcoming" -> 1
      [] status = "active" -> 2
      [] status = "passed" -> 3

StatusAsClaimed ==
    status_last # NoStatus =>
        /\ status_last.ret = "upcoming" <=> status_last.at < window.start
        /\ status_last.ret = "active" <=>
              (window.start <= status_last.at /\ status_last.at <= window.end)
        /\ status_last.ret = "passed" <=> status_last.at > window.end

\* C26: get_status(t) is UPCOMING exactly when t < start, ACTIVE exactly when
\* start <= t <= end and PASSED exactly when t > end; as t advances the
\* status never moves backwards.
C26_StatusByTime ==
    /\ []StatusAsClaimed
    /\ [][StatusRank(status_last'.ret) >= StatusRank(status_last.ret)]_vars

C26_Witness ==
    /\ window.start < window.end
    /\ status_last.at = window.end
    /\ status_last.ret = "active"
----------------------------------------------------------------------------
(* multi_day_planner.py: MultiDayPlanner._compare_days.  The data of a day *)
(* is reduced to whether it has price slots and, when it has, the          *)
(* total_cost in pence of the window that find_optimal_window returns for  *)
(* it; the day at index i of multi_day_data is the day with offset i - 1   *)
(* from the planning date.                                                 *)

NoPriceData == [has_prices |-> FALSE, cost |-> 0]

DayCosts == {200, 300, 450}

DayData == {NoPriceData} \cup {[has_prices |-> TRUE, cost |-> c] : c \in DayCosts}

\* the comparisons in the order of the days, the days without prices skipped
RECURSIVE ComparisonsFrom(_, _)
ComparisonsFrom(data, idx) ==
    IF idx > Len(data) THEN <<>>
    ELSE IF ~data[idx].has_prices THEN ComparisonsFrom(data, idx + 1)
    ELSE <<[day_offset |-> idx - 1, cost |-> data[idx].cost,
            savings_vs_today |-> 0]>> \o ComparisonsFrom(data, idx + 1)

\* today_cost = comparisons[0].cost
BaselineCost(data, listed) == listed[1].cost

_compare_days(data) ==
    LET listed == ComparisonsFrom(data, 1)
    IN  [i \in DOMAIN listed |->
            [listed[i] EXCEPT
                !.savings_vs_today = BaselineCost(data, listed) - listed[i].cost]]

InitPlanner ==
    /\ EarlierIdle
    /\ LaterIdleBut("planner")
    /\ \E num_days \in 0..MaxPlanDays : multi_day_data \in [1..num_days -> DayData]
    /\ compare_pc = "call"
    /\ day_comparisons = <<>>

CompareDays ==
    /\ compare_pc = "call"
    /\ day_comparisons' = _compare_days(multi_day_data)
    /\ compare_pc' = "done"
    /\ UNCHANGED multi_day_data
    /\ UNCHANGED earlierVars
    /\ LaterUnchangedBut("planner")

NextPlanner == CompareDays

SpecPlanner == InitPlanner /\ [][NextPlanner]_vars

----------------------------------------------------------------------------
(* Claims about the multi-day planner, checked under SpecPlanner *)

\* C29: in the list of _compare_days every entry's savings_vs_today is the
\* cost of charging today (the day with offset 0) minus the entry's cost, and
\* 0 for today's entry, whichever days have price data.
C29_SavingsAgainstToday ==
    (compare_pc = "done" /\ day_comparisons # <<>>) =>
        /\ multi_day_data[1].has_prices
        /\ \A i \in DOMAIN day_comparisons :
              /\ day_comparisons[i].savings_vs_today =
                     multi_day_data[1].cost - day_comparisons[i].cost
              /\ day_comparisons[i].day_offset = 0 =>
                     day_comparisons[i].savings_vs_today = 0
=============================================================================
